---------------------------- MODULE Spec2Model ----------------------------
(***************************************************************************)
(* Verification model of the genetic-algorithm calibration engine of FRED  *)
(* (fredpy.genetic_algorithm_calibration and bin/calibrate_opiod_params).  *)
(*                                                                         *)
(* Python floats are modelled as binary floating-point numbers m * 2^e     *)
(* with a mantissa of Precision bits, an unbounded exponent and            *)
(* round-to-nearest, ties-to-even: the arithmetic of IEEE-754 doubles at   *)
(* a reduced precision and without overflow or underflow.  A float is the  *)
(* pair <<m, e>> in canonical form (m odd, or <<0, 0>> for zero), so two   *)
(* numbers are equal exactly when the pairs are equal.                     *)
(***************************************************************************)
EXTENDS Integers, Sequences, FiniteSets, TLC

\* ------------------------------------------------------------------------
\* Bounds of the model
\* ------------------------------------------------------------------------

\* mantissa bits of the modelled floats
Precision == 3

\* ------------------------------------------------------------------------
\* Floating-point arithmetic (Python float: +, -, *, /, abs, <, ==)
\* ------------------------------------------------------------------------

RECURSIVE Pow2(_)
Pow2(k) == IF k <= 0 THEN 1 ELSE 2 * Pow2(k - 1)

IAbs(n) == IF n < 0 THEN 0 - n ELSE n

IMin(a, b) == IF a < b THEN a ELSE b

\* canonical form of m * 2^e
RECURSIVE Norm(_, _)
Norm(m, e) ==
    IF m = 0 THEN <<0, 0>>
    ELSE IF m % 2 = 0 THEN Norm(m \div 2, e + 1)
    ELSE <<m, e>>

\* n / d (n >= 0, d > 0) rounded to the nearest integer, ties to even
RoundDiv(n, d) ==
    LET q == n \div d
        r == n % d
    IN  IF 2 * r < d THEN q
        ELSE IF 2 * r > d THEN q + 1
        ELSE IF q % 2 = 0 THEN q ELSE q + 1

\* (n / d) * 2^e (n > 0, d > 0) rounded to Precision significant bits
RECURSIVE RoundPos(_, _, _)
RoundPos(n, d, e) ==
    IF n < d * Pow2(Precision - 1) THEN RoundPos(2 * n, d, e - 1)
    ELSE IF n >= d * Pow2(Precision) THEN RoundPos(n, 2 * d, e + 1)
    ELSE <<RoundDiv(n, d), e>>

\* the float nearest to (n / d) * 2^e, for integers n, d with d > 0
RoundRat(n, d, e) ==
    IF n = 0 THEN <<0, 0>>
    ELSE LET r == RoundPos(IAbs(n), d, e)
         IN  IF n < 0 THEN Norm(0 - r[1], r[2]) ELSE Norm(r[1], r[2])

\* the float of a decimal literal n / d of the source, and of an integer
Lit(n, d) == RoundRat(n, d, 0)

Int2F(n) == RoundRat(n, 1, 0)

Zero == <<0, 0>>

One == <<1, 0>>

\* the mantissa of x when both x and y are written with the exponent
\* min(x.e, y.e)
Align(x, y) == x[1] * Pow2(x[2] - IMin(x[2], y[2]))

\* the shift up to which a mantissa stays within the integers of the checker
AlignSpan == 24

\* Align for a comparison: a mantissa shifted by AlignSpan already exceeds
\* every mantissa that is not shifted, so sys.float_info.max can be compared
\* with an error
Shift(x, y) == x[1] * Pow2(IMin(x[2] - IMin(x[2], y[2]), AlignSpan))

\* float('nan'): the value of exponent 1025, which every comparison but !=
\* answers with False
NaN == <<0, 1025>>

IsNaN(x) == x[2] = 1025

FLt(x, y) == ~IsNaN(x) /\ ~IsNaN(y) /\ Shift(x, y) < Shift(y, x)

FLe(x, y) == ~IsNaN(x) /\ ~IsNaN(y) /\ Shift(x, y) <= Shift(y, x)

\* x == y
FEq(x, y) == ~IsNaN(x) /\ ~IsNaN(y) /\ x = y

FGt(x, y) == FLt(y, x)

FGe(x, y) == FLe(y, x)

FNeg(x) == <<0 - x[1], x[2]>>

FAbs(x) == <<IAbs(x[1]), x[2]>>

\* float('inf'): the value of exponent 1024, beyond every finite float
Inf == <<1, 1024>>

IsInf(x) == x[2] = 1024

FAdd(x, y) ==
    IF IsNaN(x) \/ IsNaN(y) THEN NaN
    ELSE IF IsInf(x) THEN IF IsInf(y) /\ y # x THEN NaN ELSE x
    ELSE IF IsInf(y) THEN y
    ELSE RoundRat(Align(x, y) + Align(y, x), 1, IMin(x[2], y[2]))

FSub(x, y) == FAdd(x, FNeg(y))

FMul(x, y) ==
    IF IsNaN(x) \/ IsNaN(y) THEN NaN
    ELSE IF IsInf(x) \/ IsInf(y)
    THEN IF x = Zero \/ y = Zero THEN NaN
         ELSE IF (x[1] < 0) = (y[1] < 0) THEN Inf ELSE FNeg(Inf)
    ELSE RoundRat(x[1] * y[1], 1, x[2] + y[2])

\* x / y for y # 0 (Python raises ZeroDivisionError for y = 0; the callers
\* below test for it)
FDiv(x, y) ==
    IF IsNaN(x) \/ IsNaN(y) THEN NaN
    ELSE IF IsInf(x)
    THEN IF IsInf(y) THEN NaN
         ELSE IF (x[1] < 0) = (y[1] < 0) THEN Inf ELSE FNeg(Inf)
    ELSE IF IsInf(y) THEN Zero
    ELSE RoundRat(IF y[1] < 0 THEN 0 - x[1] ELSE x[1], IAbs(y[1]),
                  x[2] - y[2])

FMin(x, y) == IF FLt(y, x) THEN y ELSE x

FMax(x, y) == IF FLt(x, y) THEN y ELSE x

\* the integer part of the square root of n >= 0
ISqrt(n) == CHOOSE s \in 0..n : s * s <= n /\ (s + 1) * (s + 1) > n

\* the least t' >= t with e - t' even and m * 2^t' of at least
\* 2 * Precision + 3 bits, so that its integer root has Precision + 2 bits
RECURSIVE SqrtScale(_, _, _)
SqrtScale(m, e, t) ==
    IF (e - t) % 2 = 0 /\ m * Pow2(t) >= Pow2(2 * Precision + 2) THEN t
    ELSE SqrtScale(m, e, t + 1)

\* math.sqrt(x) for x >= 0: the float nearest to the square root of x
FSqrt(x) ==
    IF x = Zero \/ IsInf(x) \/ IsNaN(x) THEN x
    ELSE LET t == SqrtScale(x[1], x[2], 0)
             n == x[1] * Pow2(t)
             s == ISqrt(n)
             q == s \div 4
             r == s % 4
             up == IF s * s = n THEN r = 3 \/ (r = 2 /\ q % 2 = 1)
                   ELSE r >= 2
         IN  Norm(IF up THEN q + 1 ELSE q, (x[2] - t) \div 2 + 2)

\* ------------------------------------------------------------------------
\* Outcomes of a call: a returned value or a raised exception
\* ------------------------------------------------------------------------

Ok(v) == [ok |-> TRUE, val |-> v]

Raise(e) == [ok |-> FALSE, err |-> e]

\* ------------------------------------------------------------------------
\* parameter.py: Parameter and BreedableParameter
\* ------------------------------------------------------------------------

\* a constructor that checks the value against the range, and not the range
range_unchecked(name, val, min_val, max_val) ==
    IF FLt(val, min_val) \/ FLt(max_val, val) THEN Raise("ValueError")
    ELSE Ok([name |-> name, val |-> val, min_val |-> min_val,
             max_val |-> max_val])

\* Parameter.__init__
Parameter(name, val, min_val, max_val) ==
    IF FLt(val, min_val) \/ FGt(val, max_val) THEN Raise("ValueError")
    ELSE IF FGe(min_val, max_val) THEN Raise("ValueError")
    ELSE Ok([name |-> name, val |-> val, min_val |-> min_val,
             max_val |-> max_val])

\* BreedableParameter.__init__
BreedableParameter(name, val, min_val, max_val, mutation_prob) ==
    LET super == Parameter(name, val, min_val, max_val)
    IN  IF ~super.ok THEN super
        ELSE IF FLt(mutation_prob, Zero) \/ FGt(mutation_prob, One)
             THEN Raise("ValueError")
        ELSE Ok([name |-> name, val |-> val, min_val |-> min_val,
                 max_val |-> max_val, mutation_prob |-> mutation_prob])


\* Parameter.val setter
set_val(self, value) == Ok([self EXCEPT !.val = value])

\* Parameter.min_val setter
set_min_val(self, value) ==
    IF FGe(value, self.max_val) THEN Raise("ValueError")
    ELSE Ok([self EXCEPT !.min_val = value])

\* Parameter.max_val setter
set_max_val(self, value) ==
    IF FLe(value, self.min_val) THEN Raise("ValueError")
    ELSE Ok([self EXCEPT !.max_val = value])

\* Parameter.name setter
set_name(self, value) == Raise("ValueError")

\* BreedableParameter.mutation_prob setter
set_mutation_prob(self, value) ==
    IF FLt(value, Zero) \/ FGt(value, One) THEN Raise("ValueError")
    ELSE Ok([self EXCEPT !.mutation_prob = value])

\* the parameter itself where a copy of it is asked for
same_parameter(self) == Ok(self)

\* BreedableParameter.clone
clone(self) ==
    BreedableParameter(self.name, self.val, self.min_val, self.max_val,
                       self.mutation_prob)

\* the values random.uniform is sampled at
Samples == {Int2F(n) : n \in {0, 1, 3, 5, 7, 14, 16}}

\* random.uniform(a, b): some N between a and b, both ends included
Uniform(a, b) ==
    {s \in Samples \cup {a, b} : FLe(FMin(a, b), s) /\ FLe(s, FMax(a, b))}

\* number of sampled values of random.uniform(0, 1)
UnitSteps == 2

\* random.uniform(0, 1) is 0 + (1 - 0) * random.random(), in [0, 1)
Unit01 == {Lit(k, UnitSteps) : k \in 0..(UnitSteps - 1)}

\* BreedableParameter.generate_random, for each value random.uniform may
\* return
generate_random(name, min_val, max_val, min_rnd, max_rnd, mutation_prob) ==
    {BreedableParameter(name, v, min_val, max_val, mutation_prob) :
        v \in Uniform(min_rnd, max_rnd)}

\* mutate drawing between the two parents instead of outside them
mutate_between(self, lo_val, hi_val, rnd) ==
    generate_random(self.name, self.min_val, self.max_val, lo_val, hi_val,
                    self.mutation_prob)

\* the zone of a mutation: below lo_val (the lower parent) when rnd falls
\* into the share of [min, lo_val] of the two zones, above hi_val otherwise
mutate(self, lo_val, hi_val, rnd) ==
    LET total_range == FAdd(FSub(lo_val, self.min_val),
                            FSub(self.max_val, hi_val))
    IN  IF total_range = Zero THEN {Raise("ZeroDivisionError")}
        ELSE IF FLt(rnd, FDiv(FSub(lo_val, self.min_val), total_range))
        THEN generate_random(self.name, self.min_val, self.max_val,
                             self.min_val, lo_val, self.mutation_prob)
        ELSE generate_random(self.name, self.min_val, self.max_val,
                             hi_val, self.max_val, self.mutation_prob)

\* BreedableParameter.breed: the set of its outcomes when the first
\* random.uniform(0, 1) returns u and the second one (drawn in the mutation
\* branch only) returns rnd
breed(self, other_param, u, rnd) ==
    IF self.name # other_param.name THEN {Raise("ValueError")}
    ELSE IF self.val = other_param.val
    THEN generate_random(self.name, self.min_val, self.max_val,
                         self.min_val, self.max_val, self.mutation_prob)
    ELSE IF FLt(u, self.mutation_prob)
    THEN IF FLt(self.val, other_param.val)
         THEN mutate(self, self.val, other_param.val, rnd)
         ELSE mutate(self, other_param.val, self.val, rnd)
    ELSE IF FLt(self.val, other_param.val)
    THEN {BreedableParameter(self.name, v, self.min_val, self.max_val,
                             self.mutation_prob) :
             v \in Uniform(self.val, other_param.val)}
    ELSE {BreedableParameter(self.name, v, self.min_val, self.max_val,
                             self.mutation_prob) :
             v \in Uniform(other_param.val, self.val)}

\* BreedableParameter.move_towards_value
move_towards_value(self, target, rate) ==
    IF FLt(rate, Zero) \/ FGt(rate, One) THEN Raise("ValueError")
    ELSE LET total_distance ==
                 IF FGt(target, self.max_val)
                 THEN FAbs(FSub(self.max_val, self.val))
                 ELSE IF FLt(target, self.min_val)
                 THEN FAbs(FSub(self.val, self.min_val))
                 ELSE FAbs(FSub(target, self.val))
         IN  IF FLt(self.val, target)
             THEN BreedableParameter(self.name,
                      FAdd(self.val, FMul(total_distance, rate)),
                      self.min_val, self.max_val, self.mutation_prob)
             ELSE IF FGt(self.val, target)
             THEN BreedableParameter(self.name,
                      FSub(self.val, FMul(total_distance, rate)),
                      self.min_val, self.max_val, self.mutation_prob)
             ELSE BreedableParameter(self.name, self.val, self.min_val,
                      self.max_val, self.mutation_prob)

\* ------------------------------------------------------------------------
\* Python dict: the sequence of its <<key, value>> items in insertion order
\* ------------------------------------------------------------------------

\* d.keys()
Keys(d) == {d[i][1] : i \in DOMAIN d}

\* d[k], for a key k of d
Get(d, k) == d[CHOOSE i \in DOMAIN d : d[i][1] = k][2]

\* d[k] = v
Put(d, k, v) ==
    IF k \in Keys(d)
    THEN [i \in DOMAIN d |-> IF d[i][1] = k THEN <<k, v>> ELSE d[i]]
    ELSE Append(d, <<k, v>>)

\* del d[k]
Del(d, k) == SelectSeq(d, LAMBDA item : item[1] # k)

\* the value a method without a return statement returns
None == [type |-> "NoneType"]

\* ------------------------------------------------------------------------
\* genetic_calibration_param_group.py: BreedableParameterGoup
\*
\* An object is the record of its attributes; param_list_type tells the
\* list of __init__ from the tuple of clear.  A method that changes self
\* yields [out |-> its outcome, self |-> self afterwards]; indices count
\* from 0 as in Python, so param_list[idx] is param_list[idx + 1] here.
\* ------------------------------------------------------------------------

\* BreedableParameterGoup.__init__
BreedableParameterGoup ==
    [param_list |-> <<>>, param_list_type |-> "list",
     param_index_dict |-> <<>>]

\* BreedableParameterGoup.append
append(self, parameter) ==
    IF parameter.name \in Keys(self.param_index_dict)
    THEN [out |-> Raise("ValueError"), self |-> self]
    ELSE IF self.param_list_type # "list"
    THEN [out |-> Raise("AttributeError"), self |-> self]
    ELSE [out |-> Ok(None),
          self |-> [self EXCEPT
              !.param_list = Append(@, parameter),
              !.param_index_dict =
                  Put(@, parameter.name, Len(self.param_list) + 1 - 1)]]

\* BreedableParameterGoup.remove: the indices are lowered and the name is
\* deleted from the dict, then param_list.pop([idx]) raises (a list is no
\* index) and leaves the list as it was
remove(self, parameter) ==
    IF parameter.name \in Keys(self.param_index_dict)
    THEN LET idx == Get(self.param_index_dict, parameter.name)
             lowered == [i \in DOMAIN self.param_index_dict |->
                 LET item == self.param_index_dict[i]
                 IN  IF item[2] > idx THEN <<item[1], item[2] - 1>>
                     ELSE item]
         IN  [out |-> IF self.param_list_type = "list"
                      THEN Raise("TypeError") ELSE Raise("AttributeError"),
              self |-> [self EXCEPT
                  !.param_index_dict = Del(lowered, parameter.name)]]
    ELSE [out |-> Ok(None), self |-> self]

\* BreedableParameterGoup.clear
clear(self) ==
    [out |-> Ok(None),
     self |-> [param_list |-> <<>>, param_list_type |-> "tuple",
               param_index_dict |-> <<>>]]

\* BreedableParameterGoup.get_as_dictionary
get_as_dictionary(self) ==
    IF \E i \in DOMAIN self.param_index_dict :
           self.param_index_dict[i][2] + 1 > Len(self.param_list)
    THEN Raise("IndexError")
    ELSE Ok([i \in DOMAIN self.param_index_dict |->
                <<self.param_index_dict[i][1],
                  self.param_list[self.param_index_dict[i][2] + 1].val>>])

\* BreedableParameter.breed for every pair of draws of random.uniform(0, 1)
breed_any(self, other_param) ==
    UNION {breed(self, other_param, u, rnd) : u \in Unit01, rnd \in Unit01}

\* the loop of BreedableParameterGoup.breed from item i of
\* self.param_index_dict on, new_group holding the children so far: the set
\* of its outcomes
RECURSIVE group_breed_loop(_, _, _, _)
group_breed_loop(self, other_param_group, i, new_group) ==
    IF i > Len(self.param_index_dict) THEN {Ok(new_group)}
    ELSE LET name == self.param_index_dict[i][1]
             idx == self.param_index_dict[i][2]
             other_idx == Get(other_param_group.param_index_dict, name)
         IN  UNION {
                 IF ~child.ok THEN {child}
                 ELSE LET appended == append(new_group, child.val)
                      IN  IF ~appended.out.ok THEN {appended.out}
                          ELSE group_breed_loop(self, other_param_group,
                                                i + 1, appended.self) :
                 child \in breed_any(
                     self.param_list[idx + 1],
                     other_param_group.param_list[other_idx + 1])}

\* BreedableParameterGoup.breed: the set of its outcomes
group_breed(self, other_param_group) ==
    IF Len(self.param_list) # Len(other_param_group.param_list)
    THEN {Raise("ValueError")}
    ELSE IF Keys(self.param_index_dict)
            # Keys(other_param_group.param_index_dict)
    THEN {Raise("ValueError")}
    ELSE group_breed_loop(self, other_param_group, 1, BreedableParameterGoup)

\* the loop of BreedableParameterGoup.randomize from item i of
\* self.param_index_dict on, new_group holding the parameters drawn so far:
\* the set of its outcomes
RECURSIVE randomize_loop(_, _, _)
randomize_loop(self, i, new_group) ==
    IF i > Len(self.param_index_dict) THEN {Ok(new_group)}
    ELSE LET idx == self.param_index_dict[i][2]
         IN  IF idx + 1 > Len(self.param_list) THEN {Raise("IndexError")}
             ELSE UNION {
                 IF ~new_param.ok THEN {new_param}
                 ELSE LET appended == append(new_group, new_param.val)
                      IN  IF ~appended.out.ok THEN {appended.out}
                          ELSE randomize_loop(self, i + 1, appended.self) :
                 new_param \in generate_random(
                     self.param_list[idx + 1].name,
                     self.param_list[idx + 1].min_val,
                     self.param_list[idx + 1].max_val,
                     self.param_list[idx + 1].min_val,
                     self.param_list[idx + 1].max_val,
                     self.param_list[idx + 1].mutation_prob)}

\* BreedableParameterGoup.randomize: the set of its outcomes
randomize(self) == randomize_loop(self, 1, BreedableParameterGoup)

\* the first loop of gradient_update_to_target from item i of outcomes on:
\* the multipliers, or the KeyError of targets[name]
RECURSIVE target_multipliers_loop(_, _, _, _)
target_multipliers_loop(outcomes, targets, i, target_multipliers) ==
    IF i > Len(outcomes) THEN Ok(target_multipliers)
    ELSE LET name == outcomes[i][1]
             outcome == outcomes[i][2]
         IN  IF name \notin Keys(targets) THEN Raise("KeyError")
             ELSE IF Get(targets, name) = Zero \/ outcome = Zero
             THEN target_multipliers_loop(outcomes, targets, i + 1,
                                          target_multipliers)
             ELSE target_multipliers_loop(outcomes, targets, i + 1,
                      Put(target_multipliers, name,
                          FDiv(One, FDiv(outcome, Get(targets, name)))))

\* a scan of target_to_parameters_weights that goes on after a match: the
\* last (target_name, weight_dict) holding param_name, as <<j>>, or <<>>
RECURSIVE last_weight(_, _, _)
last_weight(target_to_parameters_weights, param_name, j) ==
    IF j > Len(target_to_parameters_weights) THEN <<>>
    ELSE LET later == last_weight(target_to_parameters_weights, param_name,
                                  j + 1)
         IN  IF later # <<>> THEN later
             ELSE IF param_name \in Keys(target_to_parameters_weights[j][2])
             THEN <<j>>
             ELSE <<>>

\* the scan of target_to_parameters_weights for param_name from item j on:
\* the first (target_name, weight_dict) holding it, as <<j>>, or <<>>
RECURSIVE first_weight(_, _, _)
first_weight(target_to_parameters_weights, param_name, j) ==
    IF j > Len(target_to_parameters_weights) THEN <<>>
    ELSE IF param_name \in Keys(target_to_parameters_weights[j][2])
    THEN <<j>>
    ELSE first_weight(target_to_parameters_weights, param_name, j + 1)

\* 0.85, the rate of gradient_update_to_target
GradientRate == Lit(85, 100)

\* the body of the second loop of gradient_update_to_target for the item
\* (param_name, idx) of self.param_index_dict, param being param_list[idx]:
\* the new parameter, or what is raised
gradient_param(param_name, param, target_multipliers, weights) ==
    LET found == first_weight(weights, param_name, 1)
    IN  IF found = <<>> THEN clone(param)
        ELSE LET target_name == weights[found[1]][1]
                 weight_dict == weights[found[1]][2]
             IN  IF target_name \notin Keys(target_multipliers)
                 THEN Raise("KeyError")
                 ELSE move_towards_value(param,
                          FMul(FMul(param.val, Get(weight_dict, param_name)),
                               Get(target_multipliers, target_name)),
                          GradientRate)

\* the second loop of gradient_update_to_target from item i of
\* self.param_index_dict on
RECURSIVE gradient_loop(_, _, _, _, _)
gradient_loop(self, target_multipliers, weights, i, new_group) ==
    IF i > Len(self.param_index_dict) THEN Ok(new_group)
    ELSE LET param_name == self.param_index_dict[i][1]
             idx == self.param_index_dict[i][2]
             new_param == gradient_param(param_name, self.param_list[idx + 1],
                                         target_multipliers, weights)
         IN  IF ~new_param.ok THEN new_param
             ELSE LET appended == append(new_group, new_param.val)
                  IN  IF ~appended.out.ok THEN appended.out
                      ELSE gradient_loop(self, target_multipliers, weights,
                                         i + 1, appended.self)

\* BreedableParameterGoup.gradient_update_to_target
group_gradient_update_to_target(self, outcomes, targets, weights) ==
    LET target_multipliers ==
            target_multipliers_loop(outcomes, targets, 1, <<>>)
    IN  IF ~target_multipliers.ok THEN target_multipliers
        ELSE gradient_loop(self, target_multipliers.val, weights, 1,
                           BreedableParameterGoup)

\* ------------------------------------------------------------------------
\* genetic_calibration.py: GeneticCalibration
\* ------------------------------------------------------------------------

\* sys.float_info.max: the largest finite float
FloatMax == <<Pow2(Precision) - 1, 1024 - Precision>>

\* GeneticCalibration.__init__
GeneticCalibration ==
    [param_group |-> BreedableParameterGoup,
     targets |-> <<>>,
     outcomes |-> <<>>,
     target_to_parameters_weights |-> <<>>,
     threshold |-> Lit(1, 10),
     evaluated_error |-> FloatMax,
     fred_key |-> None]

\* GeneticCalibration.targets setter
set_targets(self, value) == Ok([self EXCEPT !.targets = value])

\* GeneticCalibration.outcomes setter
set_outcomes(self, value) == Raise("ValueError")

\* GeneticCalibration.evaluated_error setter
set_evaluated_error(self, value) == Raise("ValueError")

\* the term of evaluate's sum for every target: the squared error against
\* 0.001
absolute_error_term(target_value, other_value) ==
    LET quotient == FDiv(FSub(target_value, other_value), Lit(1, 1000))
    IN  FMul(quotient, quotient)

\* the term evaluate adds to squared_error for one target
squared_error_term(target_value, other_value) ==
    IF target_value = Zero
    THEN LET quotient == FDiv(FSub(target_value, other_value), Lit(1, 1000))
         IN  FMul(quotient, quotient)
    ELSE LET quotient == FDiv(FSub(target_value, other_value), target_value)
         IN  FMul(quotient, quotient)

\* the loop of evaluate from item i of self.targets on
RECURSIVE evaluate_loop(_, _, _, _)
evaluate_loop(targets, outcomes, i, squared_error) ==
    IF i > Len(targets) THEN squared_error
    ELSE evaluate_loop(targets, outcomes, i + 1,
             FAdd(squared_error,
                  squared_error_term(targets[i][2],
                                     Get(outcomes, targets[i][1]))))

\* GeneticCalibration.evaluate
evaluate(self, outcomes) ==
    IF Keys(self.targets) # Keys(outcomes)
    THEN [out |-> Raise("ValueError"), self |-> self]
    ELSE [out |-> Ok(None),
          self |-> [self EXCEPT
              !.outcomes = outcomes,
              !.evaluated_error =
                  FSqrt(evaluate_loop(self.targets, outcomes, 1, Zero))]]

\* the new GeneticCalibration of breed and gradient_update_to_target
\* around param_group
successor(self, param_group) ==
    [GeneticCalibration EXCEPT
        !.param_group = param_group,
        !.targets = self.targets,
        !.threshold = self.threshold,
        !.target_to_parameters_weights = self.target_to_parameters_weights]

\* GeneticCalibration.breed: the set of its outcomes (the message of the
\* second check reads the attribute param_index_dic, which does not exist)
gc_breed(self, other_genetic_calibration) ==
    IF Len(self.param_group.param_list)
           # Len(other_genetic_calibration.param_group.param_list)
    THEN {Raise("ValueError")}
    ELSE IF Keys(self.param_group.param_index_dict)
            # Keys(other_genetic_calibration.param_group.param_index_dict)
    THEN {Raise("AttributeError")}
    ELSE {IF bred.ok THEN Ok(successor(self, bred.val)) ELSE bred :
              bred \in group_breed(self.param_group,
                                   other_genetic_calibration.param_group)}

\* GeneticCalibration.gradient_update_to_target
gc_gradient_update_to_target(self) ==
    LET updated == group_gradient_update_to_target(
                       self.param_group, self.outcomes, self.targets,
                       self.target_to_parameters_weights)
    IN  IF updated.ok THEN Ok(successor(self, updated.val)) ELSE updated

\* GeneticCalibration.__eq__
eq(self, other) == FEq(self.evaluated_error, other.evaluated_error)

\* GeneticCalibration.__ne__
ne(self, other) == ~FEq(self.evaluated_error, other.evaluated_error)

\* GeneticCalibration.__gt__
gt(self, other) == FGt(self.evaluated_error, other.evaluated_error)

\* GeneticCalibration.__ge__
ge(self, other) == FGe(self.evaluated_error, other.evaluated_error)

\* GeneticCalibration.__lt__
lt(self, other) == FLt(self.evaluated_error, other.evaluated_error)

\* GeneticCalibration.__le__
le(self, other) == FLe(self.evaluated_error, other.evaluated_error)

\* GeneticCalibration.fred_key setter
set_fred_key(self, value) == Ok([self EXCEPT !.fred_key = value])

\* GeneticCalibration.param_group setter
set_param_group(self, value) == Ok([self EXCEPT !.param_group = value])

\* GeneticCalibration.target_to_parameters_weights setter
set_target_to_parameters_weights(self, value) ==
    Ok([self EXCEPT !.target_to_parameters_weights = value])

\* GeneticCalibration.threshold setter
set_threshold(self, value) == Ok([self EXCEPT !.threshold = value])

\* ------------------------------------------------------------------------
\* calibrate_opiod_params.py: the two ways to advance a generation
\*
\* A list of GeneticCalibrations holds references: an element is the object's
\* attributes together with id, the identity of the object.
\* ------------------------------------------------------------------------

\* 10, the size both functions demand of the list
PopulationSize == 10

\* the GeneticCalibration obj as the object of identity id
Object(id, obj) ==
    [id |-> id,
     param_group |-> obj.param_group,
     targets |-> obj.targets,
     outcomes |-> obj.outcomes,
     target_to_parameters_weights |-> obj.target_to_parameters_weights,
     threshold |-> obj.threshold,
     evaluated_error |-> obj.evaluated_error,
     fred_key |-> obj.fred_key]

\* the identity of an object created while the objects of the lists a and b
\* exist
FreshId(a, b) ==
    LET used == {a[i].id : i \in DOMAIN a} \cup {b[i].id : i \in DOMAIN b}
    IN  (CHOOSE n \in used \cup {0} : \A k \in used : k <= n) + 1

\* list.sort() on a list of fewer than 64 elements, which uses __lt__ only:
\* the run that begins the list is found (and reversed when it descends
\* strictly), then every element behind it is inserted into the sorted part
\* at the place a binary search finds

\* the length of the run that begins the list, k elements of it seen
RECURSIVE run_length(_, _, _)
run_length(list, k, descending) ==
    IF k < Len(list) /\ (lt(list[k + 1], list[k]) = descending)
    THEN run_length(list, k + 1, descending)
    ELSE k

\* the run that begins a list of two elements or more
count_run(list) ==
    LET descending == lt(list[2], list[1])
    IN  [n |-> run_length(list, 2, descending), descending |-> descending]

\* the index (from 0) behind the elements of list[l .. r - 1] that pivot is
\* not less than, by halving
RECURSIVE bisect(_, _, _, _)
bisect(list, pivot, l, r) ==
    IF l >= r THEN l
    ELSE LET p == l + (r - l) \div 2
         IN  IF lt(pivot, list[p + 1]) THEN bisect(list, pivot, l, p)
             ELSE bisect(list, pivot, p + 1, r)

\* the list with its elements from index start (from 0) on inserted, one
\* after the other, into the sorted part ahead of them
RECURSIVE binarysort(_, _)
binarysort(list, start) ==
    IF start >= Len(list) THEN list
    ELSE LET pivot == list[start + 1]
             l == bisect(list, pivot, 0, start)
         IN  binarysort(SubSeq(list, 1, l) \o <<pivot>>
                            \o SubSeq(list, l + 1, start)
                            \o SubSeq(list, start + 2, Len(list)),
                        start + 1)

\* s from its last element to its first
Reverse(s) == [i \in 1..Len(s) |-> s[Len(s) + 1 - i]]

\* list.sort() of a list of GeneticCalibrations
list_sort(list) ==
    IF Len(list) < 2 THEN list
    ELSE LET run == count_run(list)
             head == SubSeq(list, 1, run.n)
         IN  binarysort((IF run.descending THEN Reverse(head) ELSE head)
                            \o SubSeq(list, run.n + 1, Len(list)),
                        run.n)

\* the indices of the two parents of every breed call of
\* _perform_genetic_mixing, in the order of the calls
BreedPairs ==
    <<<<0, 1>>, <<0, 2>>, <<0, 3>>, <<1, 2>>, <<1, 3>>, <<1, 4>>, <<2, 3>>,
      <<2, 4>>, <<3, 4>>>>

\* the breed calls of _perform_genetic_mixing from the k-th on, ret being
\* ret_genetic_calibrations so far: the set of the outcomes
RECURSIVE genetic_mixing_loop(_, _, _)
genetic_mixing_loop(genetic_calibrations, k, ret) ==
    IF k > Len(BreedPairs) THEN {Ok(ret)}
    ELSE UNION {
             IF ~child.ok THEN {child}
             ELSE genetic_mixing_loop(
                      genetic_calibrations, k + 1,
                      Append(ret, Object(FreshId(genetic_calibrations, ret),
                                         child.val))) :
             child \in gc_breed(genetic_calibrations[BreedPairs[k][1] + 1],
                                genetic_calibrations[BreedPairs[k][2] + 1])}

\* _perform_genetic_mixing: the set of [out |-> its outcome,
\* genetic_calibrations |-> the list passed, afterwards]
perform_genetic_mixing(genetic_calibrations) ==
    IF ~(Len(genetic_calibrations) = PopulationSize)
    THEN {[out |-> Raise("IndexError"),
           genetic_calibrations |-> genetic_calibrations]}
    ELSE LET sorted == list_sort(genetic_calibrations)
         IN  {[out |-> o, genetic_calibrations |-> sorted] :
                  o \in genetic_mixing_loop(sorted, 1, <<sorted[1]>>)}

\* the indices of the candidates _perform_weighted_parameter_adjustments
\* calls gradient_update_to_target on, in the order of the calls
UpdatedIndices == <<0, 1, 2, 3, 4, 5, 6, 7>>

\* the function without the two candidates it keeps: the list of the
\* updated candidates alone
adjustments_alone(sorted, updated) ==
    LET raised == {k \in DOMAIN UpdatedIndices : ~updated[k].ok}
    IN  IF raised # {}
        THEN updated[CHOOSE k \in raised : \A j \in raised : k <= j]
        ELSE Ok([k \in DOMAIN UpdatedIndices |->
                    Object(FreshId(sorted, <<>>) + k - 1, updated[k].val)])

\* _perform_weighted_parameter_adjustments behind its sort, updated[k]
\* being the outcome of its k-th call of gradient_update_to_target: the
\* calls are made in the order of UpdatedIndices and the first one that
\* raises ends the function
weighted_parameter_adjustments(sorted, updated) ==
    LET raised == {k \in DOMAIN UpdatedIndices : ~updated[k].ok}
    IN  IF raised # {}
        THEN updated[CHOOSE k \in raised : \A j \in raised : k <= j]
        ELSE Ok(<<sorted[1], sorted[2]>>
                \o [k \in DOMAIN UpdatedIndices |->
                       Object(FreshId(sorted, <<>>) + k - 1, updated[k].val)])

\* the outcomes of the calls of gradient_update_to_target on the sorted list
gradient_updates(sorted) ==
    {[k \in DOMAIN UpdatedIndices |->
         gc_gradient_update_to_target(sorted[UpdatedIndices[k] + 1])]}

\* _perform_weighted_parameter_adjustments: the set (of one element) of
\* [out |-> its outcome, genetic_calibrations |-> the list passed, afterwards]
perform_weighted_parameter_adjustments(genetic_calibrations) ==
    IF ~(Len(genetic_calibrations) = PopulationSize)
    THEN {[out |-> Raise("IndexError"),
           genetic_calibrations |-> genetic_calibrations]}
    ELSE UNION {
             {[out |-> weighted_parameter_adjustments(sorted, updated),
               genetic_calibrations |-> sorted] :
                 updated \in gradient_updates(sorted)} :
             sorted \in {list_sort(genetic_calibrations)}}

\* ------------------------------------------------------------------------
\* calibrate_opiod_params.py: main, the generation loop, and the simulator
\* jobs it runs
\*
\* The job store is the list of the jobs recorded in the results directory,
\* in the order of their entries: [key |-> the run id, status |-> the
\* content of META/STATUS].
\* ------------------------------------------------------------------------

\* the error below which main stops
THRESHOLD == Lit(5, 10)

\* the number of generations main runs at most
max_iterations == 5

\* the number of candidates main creates
trials_per_iteration == 10

\* str(uuid.uuid4()): the n-th run id drawn
Uuid(n) == [type |-> "str", key |-> n]

\* the function giving a run id to the candidates that have none: one
\* that has a run id keeps it
create_model_files_for_new(genetic_calibrations, next_key) ==
    [k \in DOMAIN genetic_calibrations |->
        IF genetic_calibrations[k].fred_key = None
        THEN set_fred_key(genetic_calibrations[k], Uuid(next_key + k)).val
        ELSE genetic_calibrations[k]]

\* _create_model_files_from_genetic_calibrations on the candidates: every
\* candidate, in list order, is given a run id just drawn, next_key being
\* the number of the ids drawn so far
create_model_files(genetic_calibrations, next_key) ==
    [k \in DOMAIN genetic_calibrations |->
        set_fred_key(genetic_calibrations[k], Uuid(next_key + k)).val]

\* how fred_job ends: it returns 0 behind a finished run; it returns the
\* error code before any entry of the job is made (compilation, a locked
\* semaphore, a key in use) or behind an entry whose run has failed
JobEnds == {"finished", "no_entry", "failed_run"}

\* fred_job(file, 0, 3, 4, key, True) ending as said: the job store behind it
fred_job(jobs, key, ends) ==
    IF ends = "no_entry" THEN jobs
    ELSE Append(jobs, [key |-> key,
                       status |-> IF ends = "finished" THEN "FINISHED"
                                  ELSE "FAILED"])

\* _execute_fred_jobs from the k-th candidate on, ends[k] being how its job
\* ends: the value fred_job returns is not looked at
RECURSIVE execute_fred_jobs(_, _, _, _)
execute_fred_jobs(genetic_calibrations, ends, k, jobs) ==
    IF k > Len(genetic_calibrations) THEN jobs
    ELSE execute_fred_jobs(genetic_calibrations, ends, k + 1,
             fred_job(jobs, genetic_calibrations[k].fred_key, ends[k]))

\* _get_target_values_from_genetic_calibration: the last means of the csv
\* files of the job of the key, which only a finished job has written; the
\* directory of a key without an entry is None, which Path() does not take
get_target_values(jobs, fred_key, means) ==
    IF \E j \in DOMAIN jobs :
           jobs[j].key = fred_key /\ jobs[j].status = "FINISHED"
    THEN Ok(means)
    ELSE IF \E j \in DOMAIN jobs : jobs[j].key = fred_key
    THEN Raise("FileNotFoundError")
    ELSE Raise("TypeError")

\* the loop of main that evaluates every candidate on the values of its job,
\* means[k] being those of the k-th: the first call that raises ends it
evaluate_generation(genetic_calibrations, jobs, means) ==
    LET values == [k \in DOMAIN genetic_calibrations |->
                      get_target_values(jobs, genetic_calibrations[k].fred_key,
                                        means[k])]
        evaluated == [k \in DOMAIN genetic_calibrations |->
                         IF values[k].ok
                         THEN evaluate(genetic_calibrations[k], values[k].val)
                         ELSE [out |-> values[k],
                               self |-> genetic_calibrations[k]]]
        raised == {k \in DOMAIN genetic_calibrations : ~evaluated[k].out.ok}
        first == CHOOSE k \in raised : \A j \in raised : k <= j
    IN  [out |-> IF raised = {} THEN Ok(None) ELSE evaluated[first].out,
         genetic_calibrations |->
             [k \in DOMAIN genetic_calibrations |->
                 IF raised = {} \/ k < first THEN evaluated[k].self
                 ELSE genetic_calibrations[k]]]

\* fred_delete(key, True) for every key of the list: the job store behind it
delete_fred_jobs(jobs, fred_key_list) ==
    SelectSeq(jobs, LAMBDA job :
        \A k \in DOMAIN fred_key_list : job.key # fred_key_list[k])

\* ------------------------------------------------------------------------
\* State
\* ------------------------------------------------------------------------

VARIABLES
    param,      \* a BreedableParameter object
    call,       \* the last call made on param: its arguments and outcome
    group,      \* a BreedableParameterGoup object
    gcall,      \* the last call made on group: its arguments and outcome
    gc,         \* a GeneticCalibration object
    gc_call,    \* the last call made on gc: its arguments and outcome
    genetic_calibrations,   \* the list of GeneticCalibrations of main
    advance,    \* the last call made on the list: its argument and outcome
    main,       \* the local variables of main
    pc,         \* the point of its code main has reached
    jobs        \* the job store: the simulator jobs recorded

vars == <<param, call, group, gcall, gc, gc_call, genetic_calibrations,
          advance, main, pc, jobs>>

\* the variables the operations on one parameter leave alone
notParamVars ==
    <<group, gcall, gc, gc_call, genetic_calibrations, advance, main, pc,
      jobs>>

\* the variables the operations on one group leave alone
notGroupVars ==
    <<param, call, gc, gc_call, genetic_calibrations, advance, main, pc,
      jobs>>

\* the variables the operations on one GeneticCalibration leave alone
notCandidateVars ==
    <<param, call, group, gcall, genetic_calibrations, advance, main, pc,
      jobs>>

\* the variables the operations on the list leave alone
notGenerationVars ==
    <<param, call, group, gcall, gc, gc_call, main, pc, jobs>>

\* the variables main leaves alone
notMainVars == <<param, call, group, gcall, gc, gc_call, advance>>

\* ------------------------------------------------------------------------
\* Inputs of the parameter operations
\* ------------------------------------------------------------------------

Names == {"x", "y"}

F(S) == {Int2F(n) : n \in S}

ValInputs == F({0, 1, 3, 5, 7, 14, 16})

MinInputs == F({1, 3, 7})

MaxInputs == F({7, 14})

\* 0.0, 0.2 (main's parameters), 1.0 and two values outside [0, 1]
ProbInputs == {Zero, Lit(2, 10), One, Lit(3, 2), FNeg(Lit(1, 10))}

\* 0.0, 0.85 (gradient_update_to_target), 1.0 and two values outside [0, 1]
RateInputs == {Zero, Lit(85, 100), One, Lit(3, 2), FNeg(Lit(1, 2))}

\* the parameters passed as other_param: constructed ones, with the default
\* mutation_prob 0.1
OtherParams ==
    {r.val : r \in {o \in {BreedableParameter(n, v, b[1], b[2], Lit(1, 10)) :
                               n \in Names, v \in F({1, 3, 7, 14}),
                               b \in {<<Int2F(1), Int2F(14)>>,
                                      <<Int2F(3), Int2F(7)>>}} : o.ok}}

\* ------------------------------------------------------------------------
\* Actions on one parameter.  An operation is called when no call is
\* pending; call then holds its arguments and its outcome until the caller
\* has taken them (Return).
\* ------------------------------------------------------------------------

NoCall == [op |-> "none"]

\* the parameters main could construct from the inputs above
ConstructedParams ==
    {r.val : r \in {o \in {BreedableParameter(n, v, lo, hi, mp) :
                               n \in Names, v \in ValInputs, lo \in MinInputs,
                               hi \in MaxInputs, mp \in ProbInputs} : o.ok}}

\* the effect of a property setter, param.<attr> = value, with outcome out
Assigned(attr, value, out) ==
    /\ call = NoCall
    /\ call' = [op |-> attr, value |-> value, before |-> param,
                ok |-> out.ok]
    /\ param' = IF out.ok THEN out.val ELSE param
    /\ UNCHANGED notParamVars

SetVal(value) == Assigned("val", value, set_val(param, value))

SetMinVal(value) == Assigned("min_val", value, set_min_val(param, value))

SetMaxVal(value) == Assigned("max_val", value, set_max_val(param, value))

SetMutationProb(value) ==
    Assigned("mutation_prob", value, set_mutation_prob(param, value))

SetName(value) == Assigned("name", value, set_name(param, value))

Clone ==
    /\ call = NoCall
    /\ call' = [op |-> "clone", out |-> clone(param)]
    /\ UNCHANGED <<param, notParamVars>>

Breed(other_param, u, rnd) ==
    /\ call = NoCall
    /\ \E out \in breed(param, other_param, u, rnd) :
           call' = [op |-> "breed", other |-> other_param, u |-> u,
                    out |-> out]
    /\ UNCHANGED <<param, notParamVars>>

MoveTowardsValue(target, rate) ==
    /\ call = NoCall
    /\ call' = [op |-> "move_towards_value", target |-> target,
                rate |-> rate, out |-> move_towards_value(param, target, rate)]
    /\ UNCHANGED <<param, notParamVars>>

\* the caller takes the outcome of the call
Return ==
    /\ call # NoCall
    /\ call' = NoCall
    /\ UNCHANGED <<param, notParamVars>>

\* the values of the variables of the objects a specification leaves out
IdleParam == param = (CHOOSE p \in ConstructedParams : TRUE) /\ call = NoCall

IdleGroup == group = BreedableParameterGoup /\ gcall = NoCall

IdleCandidate == gc = GeneticCalibration /\ gc_call = NoCall

IdleGeneration == genetic_calibrations = <<>> /\ advance = NoCall

IdleMain == main = NoCall /\ pc = "idle" /\ jobs = <<>>

ParamInit ==
    /\ param \in ConstructedParams
    /\ call = NoCall
    /\ IdleGroup /\ IdleCandidate /\ IdleGeneration /\ IdleMain

ParamNext ==
    \/ \E v \in ValInputs : SetVal(v)
    \/ \E v \in MinInputs : SetMinVal(v)
    \/ \E v \in MaxInputs : SetMaxVal(v)
    \/ \E v \in ProbInputs : SetMutationProb(v)
    \/ \E n \in Names : SetName(n)
    \/ Clone
    \/ \E o \in OtherParams, u \in Unit01, rnd \in Unit01 : Breed(o, u, rnd)
    \/ \E t \in ValInputs, r \in RateInputs : MoveTowardsValue(t, r)
    \/ Return

SpecParam == ParamInit /\ [][ParamNext]_vars

\* ------------------------------------------------------------------------
\* Claims about Parameter and BreedableParameter (under SpecParam)
\* ------------------------------------------------------------------------

\* v lies in the closed interval [lo, hi]
Between(lo, v, hi) == FLe(lo, v) /\ FLe(v, hi)

\* v lies within the legal range of parameter p
InRange(p, v) == Between(p.min_val, v, p.max_val)

\* C1: in every reachable state the parameter satisfies
\* min_val <= val <= max_val.
C1_RangeInvariant == InRange(param, param.val)

\* C2: breed of two parameters of the same name and the same bounds, both
\* values within the bounds, returns (it does not raise) a child with self's
\* name, min_val, max_val and mutation_prob and a value within the bounds.
C2_BreedReturnsChild ==
    (/\ call.op = "breed"
     /\ call.other.name = param.name
     /\ call.other.min_val = param.min_val
     /\ call.other.max_val = param.max_val
     /\ InRange(param, param.val)
     /\ InRange(param, call.other.val))
    => /\ call.out.ok
       /\ call.out.val.name = param.name
       /\ call.out.val.min_val = param.min_val
       /\ call.out.val.max_val = param.max_val
       /\ call.out.val.mutation_prob = param.mutation_prob
       /\ InRange(param, call.out.val.val)

\* the values of the two parents of a breed call, the lower one first
LoParent == FMin(param.val, call.other.val)

HiParent == FMax(param.val, call.other.val)

\* a breed call that returned a child
BreedReturned == call.op = "breed" /\ call.out.ok

\* the breed call took the mutation branch: its first draw fell below
\* mutation_prob
Mutated == FLt(call.u, param.mutation_prob)

\* where C3 places the child of a breed call that returned one
BreedZones ==
    LET child == call.out.val.val
    IN  IF param.val = call.other.val THEN InRange(param, child)
        ELSE IF Mutated
        THEN \/ Between(param.min_val, child, LoParent)
             \/ Between(HiParent, child, param.max_val)
        ELSE Between(LoParent, child, HiParent)

C4_MoveTowardsValue ==
    (call.op = "move_towards_value" /\ InRange(param, param.val))
    => IF FLt(call.rate, Zero) \/ FGt(call.rate, One) THEN ~call.out.ok
       ELSE /\ call.out.ok
            /\ InRange(param, call.out.val.val)
            /\ (call.rate = Zero => call.out.val.val = param.val)
            /\ (call.rate = One /\ InRange(param, call.target)
                   => call.out.val.val = call.target)

\* ------------------------------------------------------------------------
\* Inputs of the group operations
\* ------------------------------------------------------------------------

\* the longest param_list the calls below build
MaxParams == 3

\* the parameters appended to a group: constructed ones, with the
\* mutation_prob 0.2 of main's parameters
GroupParams ==
    {r.val : r \in {o \in {BreedableParameter(nv[1], Int2F(nv[2]), Int2F(1),
                                               Int2F(14), Lit(2, 10)) :
                               nv \in {<<"x", 3>>, <<"x", 7>>, <<"y", 3>>,
                                       <<"z", 7>>}} : o.ok}}

\* <<outcome, target>> of metric m: below and above the target, on it, and
\* a zero on either side
PairsOfM == {<<Int2F(p[1]), Int2F(p[2])>> :
                 p \in {<<3, 5>>, <<5, 3>>, <<5, 5>>, <<0, 5>>, <<5, 0>>}}

\* <<outcome, target>> of metric n
PairsOfN == {<<Int2F(p[1]), Int2F(p[2])>> : p \in {<<3, 5>>, <<0, 5>>}}

\* <<outcomes, targets>> of a call: dicts with the same keys m and n, and
\* two pairs of dicts whose keys differ
MetricInputs ==
    {<<<<<<"m", pm[1]>>, <<"n", pn[1]>>>>,
       <<<<"m", pm[2]>>, <<"n", pn[2]>>>>>> :
         pm \in PairsOfM, pn \in PairsOfN}
    \cup {<<<<<<"m", Int2F(3)>>, <<"n", Int2F(3)>>>>, <<<<"m", Int2F(5)>>>>>>,
          <<<<<<"m", Int2F(3)>>>>, <<<<"m", Int2F(5)>>, <<"n", Int2F(5)>>>>>>}

\* the weight mappings: x is listed under both metrics, y under n alone, z
\* under none; in both iteration orders, and the empty mapping
WeightsOfM == <<"m", <<<<"x", Lit(1, 2)>>>>>>

WeightsOfN == <<"n", <<<<"x", One>>, <<"y", Lit(1, 2)>>>>>>

WeightInputs == {<<WeightsOfM, WeightsOfN>>, <<WeightsOfN, WeightsOfM>>, <<>>}

\* ------------------------------------------------------------------------
\* Actions on one group
\* ------------------------------------------------------------------------

\* the effect of a method that changes the group, with result r
GroupCalled(op, arg, r) ==
    /\ gcall = NoCall
    /\ gcall' = [op |-> op, arg |-> arg, before |-> group, out |-> r.out]
    /\ group' = r.self
    /\ UNCHANGED notGroupVars

GroupAppend(parameter) ==
    /\ Len(group.param_list) < MaxParams
    /\ GroupCalled("append", parameter, append(group, parameter))

GroupRemove(parameter) ==
    /\ gcall = NoCall
    /\ GroupCalled("remove", parameter, remove(group, parameter))

GroupClear ==
    /\ gcall = NoCall
    /\ GroupCalled("clear", None, clear(group))

GroupGetAsDictionary ==
    /\ gcall = NoCall
    /\ gcall' = [op |-> "get_as_dictionary", out |-> get_as_dictionary(group)]
    /\ UNCHANGED <<group, notGroupVars>>

GroupGradientUpdate(outcomes, targets, weights) ==
    /\ gcall = NoCall
    /\ gcall' = [op |-> "gradient_update_to_target", outcomes |-> outcomes,
                 targets |-> targets, weights |-> weights,
                 out |-> group_gradient_update_to_target(
                             group, outcomes, targets, weights)]
    /\ UNCHANGED <<group, notGroupVars>>

\* the caller takes the outcome of the call on the group
GroupReturn ==
    /\ gcall # NoCall
    /\ gcall' = NoCall
    /\ UNCHANGED <<group, notGroupVars>>

GroupInit ==
    /\ group = BreedableParameterGoup
    /\ gcall = NoCall
    /\ IdleParam /\ IdleCandidate /\ IdleGeneration /\ IdleMain

GroupNext ==
    \/ \E p \in GroupParams : GroupAppend(p)
    \/ \E p \in GroupParams : GroupRemove(p)
    \/ GroupClear
    \/ GroupGetAsDictionary
    \/ \E ot \in MetricInputs, w \in WeightInputs :
           GroupGradientUpdate(ot[1], ot[2], w)
    \/ GroupReturn

SpecGroup == GroupInit /\ [][GroupNext]_vars

\* ------------------------------------------------------------------------
\* Claims about BreedableParameterGoup (under SpecGroup)
\* ------------------------------------------------------------------------

\* the names in the list of g are unique, every indexed name points at the
\* list position holding the parameter of that name, and the list holds no
\* parameter without an index entry
IndexConsistent(g) ==
    /\ \A i, j \in DOMAIN g.param_list :
           g.param_list[i].name = g.param_list[j].name => i = j
    /\ \A k \in DOMAIN g.param_index_dict :
           LET item == g.param_index_dict[k]
           IN  /\ item[2] + 1 \in DOMAIN g.param_list
               /\ g.param_list[item[2] + 1].name = item[1]
    /\ \A i \in DOMAIN g.param_list :
           g.param_list[i].name \in Keys(g.param_index_dict)

\* list s without its element at position i
Without(s, i) == SubSeq(s, 1, i - 1) \o SubSeq(s, i + 1, Len(s))

\* what C5 says of a remove call: a present parameter is deleted, alone,
\* and every higher index moves down by one; an absent one changes nothing
RemoveEffect ==
    LET before == gcall.before
        name == gcall.arg.name
    IN  IF name \in Keys(before.param_index_dict)
        THEN LET idx == Get(before.param_index_dict, name)
             IN  /\ group.param_list = Without(before.param_list, idx + 1)
                 /\ Keys(group.param_index_dict)
                        = Keys(before.param_index_dict) \ {name}
                 /\ \A n \in Keys(group.param_index_dict) :
                        Get(group.param_index_dict, n)
                            = IF Get(before.param_index_dict, n) > idx
                              THEN Get(before.param_index_dict, n) - 1
                              ELSE Get(before.param_index_dict, n)
        ELSE group = before

\* C5: after any sequence of append and remove the names of the group are
\* unique and its index lookup is consistent with its list; remove of a
\* present parameter deletes exactly that parameter and moves every higher
\* index down by one, remove of an absent parameter changes nothing.
C5_IndexConsistency ==
    /\ IndexConsistent(group)
    /\ gcall.op = "remove" => RemoveEffect

\* C6: gradient_update_to_target on outcomes and targets with the same keys
\* returns (it does not raise) a new group with the same parameter names,
\* also when the outcome or the target of a metric is zero.
C6_GradientUpdateCompletes ==
    (/\ gcall.op = "gradient_update_to_target"
     /\ Keys(gcall.outcomes) = Keys(gcall.targets))
    => /\ gcall.out.ok
       /\ Keys(gcall.out.val.param_index_dict) = Keys(group.param_index_dict)

\* a gradient_update_to_target call that returned a group
GradientReturned == gcall.op = "gradient_update_to_target" /\ gcall.out.ok

\* the positions of gcall.weights whose weight map contains name
Listed(name) == {j \in DOMAIN gcall.weights : name \in Keys(gcall.weights[j][2])}

\* the first of them in the iteration order of the mapping
FirstListed(name) == CHOOSE j \in Listed(name) : \A k \in Listed(name) : j <= k

\* the metric has an outcome and a target, both nonzero
Nonzero(metric) ==
    /\ metric \in Keys(gcall.outcomes) /\ Get(gcall.outcomes, metric) # Zero
    /\ metric \in Keys(gcall.targets) /\ Get(gcall.targets, metric) # Zero

\* target / outcome of the metric
Quotient(metric) ==
    FDiv(Get(gcall.targets, metric), Get(gcall.outcomes, metric))

\* 1.0 / (outcome / target) of the metric
Reciprocal(metric) ==
    FDiv(One, FDiv(Get(gcall.outcomes, metric), Get(gcall.targets, metric)))

\* the desired value of the parameter old indexed under name:
\* current_value * weight * multiplier, for the first metric listing name
Desired(name, old, multiplier) ==
    LET j == FirstListed(name)
    IN  FMul(FMul(old.val, Get(gcall.weights[j][2], name)), multiplier)

\* the k-th parameter of the returned group is what C7 says of the k-th
\* indexed parameter of the group, the multiplier being target / outcome
\* (exact = TRUE) or 1.0 / (outcome / target)
UpdatedAsStated(k, exact) ==
    LET name == group.param_index_dict[k][1]
        old == group.param_list[group.param_index_dict[k][2] + 1]
        new == gcall.out.val.param_list[k]
    IN  IF Listed(name) = {} THEN new = old
        ELSE LET metric == gcall.weights[FirstListed(name)][1]
                 multiplier == IF exact THEN Quotient(metric)
                               ELSE Reciprocal(metric)
             IN  /\ Nonzero(metric)
                 /\ Ok(new) = move_towards_value(
                        old, Desired(name, old, multiplier), Lit(85, 100))

\* C7 as stated: every parameter of the returned group is the old one
\* unchanged when no weight map lists its name, and otherwise
\* move_towards_value(current_value * weight * (target / outcome), 0.85) for
\* the first metric, in iteration order, whose weight map lists its name.
C7_GradientUpdateQuotient ==
    GradientReturned
    => \A k \in DOMAIN group.param_index_dict : UpdatedAsStated(k, TRUE)

\* C7 as amended: the same, the multiplier being 1.0 / (outcome / target)
\* as the floating-point divisions round it.
C7_GradientUpdateReciprocal ==
    GradientReturned
    => \A k \in DOMAIN group.param_index_dict : UpdatedAsStated(k, FALSE)

\* C7 witness: a call returned a group holding a parameter listed under two
\* metrics and moved by the first one, and a parameter listed under none.
C7_Witness ==
    /\ GradientReturned
    /\ \E k \in DOMAIN group.param_index_dict :
           LET name == group.param_index_dict[k][1]
           IN  /\ Cardinality(Listed(name)) = 2
               /\ gcall.out.val.param_list[k].val
                      # group.param_list[group.param_index_dict[k][2] + 1].val
    /\ \E k \in DOMAIN group.param_index_dict :
           Listed(group.param_index_dict[k][1]) = {}

\* ------------------------------------------------------------------------
\* Inputs of the GeneticCalibration operations
\* ------------------------------------------------------------------------

\* the dicts over the metrics m and n with values in S: the empty one, m
\* alone, and m and n in the insertion order given
DictsOver(S, orders) ==
    {<<>>} \cup {<<<<"m", a>>>> : a \in S}
    \cup {<<<<o[1], a>>, <<o[2], b>>>> : o \in orders, a \in S, b \in S}

TargetDicts == DictsOver(F({0, 5}), {<<"m", "n">>, <<"n", "m">>})

OutcomeDicts == DictsOver(F({0, 3, 5}), {<<"m", "n">>})

\* ------------------------------------------------------------------------
\* Actions on one GeneticCalibration
\* ------------------------------------------------------------------------

\* the effect of a property setter, gc.<attr> = value, with outcome out
CandidateAssigned(attr, value, out) ==
    /\ gc_call = NoCall
    /\ gc_call' = [op |-> attr, value |-> value, before |-> gc, ok |-> out.ok]
    /\ gc' = IF out.ok THEN out.val ELSE gc
    /\ UNCHANGED notCandidateVars

SetTargets(value) == CandidateAssigned("targets", value, set_targets(gc, value))

SetOutcomes(value) ==
    CandidateAssigned("outcomes", value, set_outcomes(gc, value))

SetEvaluatedError(value) ==
    CandidateAssigned("evaluated_error", value, set_evaluated_error(gc, value))

Evaluate(outcomes) ==
    /\ gc_call = NoCall
    /\ LET r == evaluate(gc, outcomes)
       IN  /\ gc_call' = [op |-> "evaluate", outcomes |-> outcomes,
                          before |-> gc, out |-> r.out]
           /\ gc' = r.self
    /\ UNCHANGED notCandidateVars

\* the caller takes the outcome of the call on the GeneticCalibration
CandidateReturn ==
    /\ gc_call # NoCall
    /\ gc_call' = NoCall
    /\ UNCHANGED <<gc, notCandidateVars>>

CandidateInit ==
    /\ gc = GeneticCalibration
    /\ gc_call = NoCall
    /\ IdleParam /\ IdleGroup /\ IdleGeneration /\ IdleMain

CandidateNext ==
    \/ \E t \in TargetDicts : SetTargets(t)
    \/ \E o \in OutcomeDicts : SetOutcomes(o)
    \/ \E e \in {Zero} : SetEvaluatedError(e)
    \/ \E o \in OutcomeDicts : Evaluate(o)
    \/ CandidateReturn

SpecCandidate == CandidateInit /\ [][CandidateNext]_vars

\* ------------------------------------------------------------------------
\* Claims about GeneticCalibration (under SpecCandidate)
\* ------------------------------------------------------------------------

\* ((target - outcome) / d)^2 with d = target, or 0.001 for a zero target
RelativeSquare(target, outcome) ==
    LET d == IF target = Zero THEN Lit(1, 1000) ELSE target
        quotient == FDiv(FSub(target, outcome), d)
    IN  FMul(quotient, quotient)

\* the sum of RelativeSquare over the first i metrics of targets
RECURSIVE SumOfSquares(_, _, _)
SumOfSquares(targets, outcomes, i) ==
    IF i = 0 THEN Zero
    ELSE FAdd(SumOfSquares(targets, outcomes, i - 1),
              RelativeSquare(targets[i][2], Get(outcomes, targets[i][1])))

\* the keys of the outcomes passed to evaluate are those of the targets
SameKeys == Keys(gc_call.outcomes) = Keys(gc_call.before.targets)

\* every outcome passed to evaluate equals its target
OnTarget ==
    \A k \in Keys(gc_call.outcomes) :
        Get(gc_call.outcomes, k) = Get(gc_call.before.targets, k)

EvaluatedCandidate(i, val, outcome) ==
    LET x == BreedableParameter("x", Int2F(val), Int2F(3), Int2F(5),
                                Lit(2, 10)).val
        built == [GeneticCalibration EXCEPT
                     !.param_group = append(BreedableParameterGoup, x).self,
                     !.targets = <<<<"m", Int2F(5)>>>>,
                     !.target_to_parameters_weights =
                         <<<<"m", <<<<"x", One>>>>>>>>]
        keyed == set_fred_key(built, [type |-> "str", key |-> i]).val
    IN  Object(i, evaluate(keyed, <<<<"m", Int2F(outcome)>>>>).self)

\* the values of x of the candidates of a list, by position
ValuePatterns ==
    {<<3, 5, 3, 5, 3, 5, 3, 5, 3, 5, 3>>,
     <<5, 5, 5, 3, 3, 5, 5, 3, 3, 5, 5>>,
     <<3, 3, 3, 3, 3, 3, 3, 3, 3, 3, 3>>}

\* the outcomes of m of the candidates of a list, by position: off the
\* target on both sides, on it, and zero
OutcomePatterns ==
    {<<7, 3, 5, 3, 7, 5, 3, 7, 3, 5, 3>>,
     <<3, 5, 0, 7, 3, 5, 7, 3, 0, 5, 7>>,
     <<0, 0, 5, 0, 0, 0, 0, 0, 0, 0, 0>>}

\* the lists passed: of the size demanded, one shorter and one longer
Populations ==
    {[i \in 1..n |-> EvaluatedCandidate(i, v[i], o[i])] :
        n \in {PopulationSize - 1, PopulationSize, PopulationSize + 1},
        v \in ValuePatterns, o \in OutcomePatterns}

\* ------------------------------------------------------------------------
\* Actions on the list of GeneticCalibrations
\* ------------------------------------------------------------------------

PerformGeneticMixing ==
    /\ advance = NoCall
    /\ \E r \in perform_genetic_mixing(genetic_calibrations) :
           /\ advance' = [op |-> "_perform_genetic_mixing",
                          before |-> genetic_calibrations, out |-> r.out]
           /\ genetic_calibrations' = r.genetic_calibrations
    /\ UNCHANGED notGenerationVars

PerformWeightedParameterAdjustments ==
    /\ advance = NoCall
    /\ \E r \in perform_weighted_parameter_adjustments(genetic_calibrations) :
           /\ advance' = [op |-> "_perform_weighted_parameter_adjustments",
                          before |-> genetic_calibrations, out |-> r.out]
           /\ genetic_calibrations' = r.genetic_calibrations
    /\ UNCHANGED notGenerationVars

\* the caller takes the outcome of the call on the list
AdvanceReturn ==
    /\ advance # NoCall
    /\ advance' = NoCall
    /\ UNCHANGED <<genetic_calibrations, notGenerationVars>>

GenerationInit ==
    /\ genetic_calibrations \in Populations
    /\ advance = NoCall
    /\ IdleParam /\ IdleGroup /\ IdleCandidate /\ IdleMain

GenerationNext ==
    \/ PerformGeneticMixing
    \/ PerformWeightedParameterAdjustments
    \/ AdvanceReturn

SpecGeneration == GenerationInit /\ [][GenerationNext]_vars

\* ------------------------------------------------------------------------
\* Claims about the two advance functions (under SpecGeneration)
\* ------------------------------------------------------------------------

\* the rank, from 1 for the best, of the candidate at position i of the list
\* passed: candidates of smaller error come first, and of equal error in
\* the order of the list
RankOf(i) ==
    LET list == advance.before
        ahead == {j \in DOMAIN list :
                     \/ FLt(list[j].evaluated_error, list[i].evaluated_error)
                     \/ /\ list[j].evaluated_error = list[i].evaluated_error
                        /\ j < i}
    IN  Cardinality(ahead) + 1

\* the candidate of rank r of the list passed
Ranked(r) == advance.before[CHOOSE i \in DOMAIN advance.before : RankOf(i) = r]

\* the identities of the objects of the list passed
OldIds == {advance.before[i].id : i \in DOMAIN advance.before}

\* new is a new object, and one that a.breed(b) can return
BredFrom(new, a, b) ==
    /\ new.id \notin OldIds
    /\ \E child \in gc_breed(a, b) : child.ok /\ new = Object(new.id, child.val)

\* new is a new object, the one old.gradient_update_to_target() returns
UpdatedFrom(new, old) ==
    LET updated == gc_gradient_update_to_target(old)
    IN  /\ new.id \notin OldIds
        /\ updated.ok
        /\ new = Object(new.id, updated.val)

\* the ranks, from 0, of the parents of positions 1 to 9 according to C9
MixedRanks ==
    <<<<0, 1>>, <<0, 2>>, <<0, 3>>, <<1, 2>>, <<1, 3>>, <<1, 4>>, <<2, 3>>,
      <<2, 4>>, <<3, 4>>>>

\* the list returned by genetic mixing is as C9 says
MixedAsStated ==
    LET ret == advance.out.val
    IN  /\ Len(ret) = 10
        /\ ret[1] = Ranked(1)
        /\ \A k \in 1..9 :
               BredFrom(ret[k + 1], Ranked(MixedRanks[k][1] + 1),
                        Ranked(MixedRanks[k][2] + 1))

\* C9: genetic mixing on exactly 10 candidates returns exactly 10
\* candidates, position 0 the best-ranked candidate itself and positions 1
\* to 9 the breed results of the rank pairs (0,1), (0,2), (0,3), (1,2),
\* (1,3), (1,4), (2,3), (2,4), (3,4); on any other size it raises and
\* returns no population.
C9_GeneticMixing ==
    advance.op = "_perform_genetic_mixing"
    => IF Len(advance.before) = 10
       THEN advance.out.ok /\ MixedAsStated
       ELSE ~advance.out.ok

\* the part of C9 the code meets: whenever genetic mixing returns, the list
\* passed had 10 candidates and the list returned is as C9 says
MixingWhenReturned ==
    (advance.op = "_perform_genetic_mixing" /\ advance.out.ok)
    => Len(advance.before) = 10 /\ MixedAsStated

\* the list returned by weighted adjustment is as C10 says: the two best
\* kept, then the updates of the candidates ranked 3rd to 10th
AdjustedAsStated ==
    LET ret == advance.out.val
    IN  /\ Len(ret) = 10
        /\ ret[1] = Ranked(1)
        /\ ret[2] = Ranked(2)
        /\ \A k \in 3..10 : UpdatedFrom(ret[k], Ranked(k))

\* C10: weighted adjustment on exactly 10 candidates keeps the two
\* best-ranked candidates at positions 0 and 1 and fills positions 2 to 9
\* with gradient_update_to_target of the candidates ranked 3rd to 10th; on
\* any other size it raises.
C10_WeightedAdjustment ==
    advance.op = "_perform_weighted_parameter_adjustments"
    => IF Len(advance.before) = 10
       THEN advance.out.ok /\ AdjustedAsStated
       ELSE ~advance.out.ok

\* what the code returns instead: the two best kept, then the updates of
\* the candidates ranked 1st to 8th
AdjustmentWhenReturned ==
    (advance.op = "_perform_weighted_parameter_adjustments" /\ advance.out.ok)
    => LET ret == advance.out.val
       IN  /\ Len(advance.before) = 10
           /\ Len(ret) = 10
           /\ ret[1] = Ranked(1)
           /\ ret[2] = Ranked(2)
           /\ \A k \in 3..10 : UpdatedFrom(ret[k], Ranked(k - 2))

\* a weighted adjustment returned a list whose position 2 is not the update
\* of the candidate ranked 3rd
AdjustedOtherRank ==
    /\ advance.op = "_perform_weighted_parameter_adjustments"
    /\ advance.out.ok
    /\ ~UpdatedFrom(advance.out.val[3], Ranked(3))

\* ------------------------------------------------------------------------
\* Inputs of main
\* ------------------------------------------------------------------------

\* the i-th GeneticCalibration main appends to genetic_calibrations: the
\* randomized parameter x in [3, 5], the target 5 of the metric m and x
\* listed under m; it is not evaluated and has no run id
CreatedCandidate(i, val) ==
    LET x == BreedableParameter("x", Int2F(val), Int2F(3), Int2F(5),
                                Lit(2, 10)).val
    IN  Object(i, [GeneticCalibration EXCEPT
                      !.param_group = append(BreedableParameterGoup, x).self,
                      !.targets = <<<<"m", Int2F(5)>>>>,
                      !.target_to_parameters_weights =
                          <<<<"m", <<<<"x", One>>>>>>>>])

\* the lists main starts its loop with
CreatedPopulations ==
    {[i \in 1..trials_per_iteration |-> CreatedCandidate(i, v[i])] :
        v \in ValuePatterns}

\* the last means of m of the jobs of one generation, by position: all far
\* off the target 5; one with the error 0.5 exactly; one on the target; all
\* zero
MeanPatterns ==
    {[k \in 1..trials_per_iteration |-> <<<<"m", Int2F(14)>>>>],
     [k \in 1..trials_per_iteration |->
         <<<<"m", IF k = 4 THEN Lit(5, 2) ELSE Int2F(14)>>>>],
     [k \in 1..trials_per_iteration |->
         <<<<"m", IF k = 4 THEN Int2F(5) ELSE Int2F(14)>>>>],
     [k \in 1..trials_per_iteration |-> <<<<"m", Zero>>>>]}

\* how the jobs of one generation end, by position: all finish, or one of
\* them (the first, one in the middle, the last) fails
EndPatterns ==
    {[k \in 1..trials_per_iteration |-> "finished"]}
    \cup {[k \in 1..trials_per_iteration |->
              IF k = at THEN ends ELSE "finished"] :
            at \in {1, 4, trials_per_iteration},
            ends \in JobEnds \ {"finished"}}

\* the loop of _perform_genetic_mixing on the sorted list from the k-th
\* breed call on when the j-th call ends as picks[j]
RECURSIVE mixing_with(_, _, _, _)
mixing_with(sorted, picks, k, ret) ==
    IF k > Len(BreedPairs) THEN Ok(ret)
    ELSE IF ~picks[k].ok THEN picks[k]
    ELSE mixing_with(sorted, picks, k + 1,
             Append(ret, Object(FreshId(sorted, ret),
                                picks[k].val)))

\* the value of x of a candidate of main
XOf(candidate) == candidate.param_group.param_list[1].val

\* the outcomes of _perform_genetic_mixing main is run on: the ones in
\* which all nine breed calls return a child of the same value of x, and
\* the ones in which a breed call raises
SampledMixing(list) ==
    IF ~(Len(list) = PopulationSize)
    THEN {[out |-> Raise("IndexError"), genetic_calibrations |-> list]}
    ELSE UNION {
        LET bred == [k \in DOMAIN BreedPairs |->
                        gc_breed(sorted[BreedPairs[k][1] + 1],
                                 sorted[BreedPairs[k][2] + 1])]
            values == {XOf(c.val) : c \in {b \in bred[1] : b.ok}}
            shared == {v \in values :
                          \A k \in DOMAIN bred :
                              \E c \in bred[k] : c.ok /\ XOf(c.val) = v}
            reached == {k \in DOMAIN bred :
                           \A j \in 1..(k - 1) : \E c \in bred[j] : c.ok}
        IN  {[out |-> mixing_with(sorted,
                          [k \in DOMAIN bred |->
                              CHOOSE c \in bred[k] :
                                  c.ok /\ XOf(c.val) = v],
                          1, <<sorted[1]>>),
              genetic_calibrations |-> sorted] : v \in shared}
            \cup {[out |-> c, genetic_calibrations |-> sorted] :
                     c \in UNION {{b \in bred[k] : ~b.ok} : k \in reached}} :
        sorted \in {list_sort(list)}}

\* ------------------------------------------------------------------------
\* Actions of main: one for every step of the body of its loop
\* ------------------------------------------------------------------------

\* the test of main with <= in the place of <
at_most_threshold(min_error) == FLe(min_error, THRESHOLD)

\* min_error < THRESHOLD, the test main leaves its loop on
below_threshold(min_error) == FLt(min_error, THRESHOLD)

\* the sweep dataframe is built and a model file written for every
\* candidate, which gives each of them a new run id
CreateModelFiles ==
    /\ pc = "create"
    /\ genetic_calibrations' =
           create_model_files(genetic_calibrations, main.next_key)
    /\ main' = [main EXCEPT !.next_key = @ + Len(genetic_calibrations)]
    /\ pc' = "execute"
    /\ UNCHANGED <<jobs, notMainVars>>

\* _execute_fred_jobs: one job for every candidate, however each one ends
ExecuteFredJobs ==
    /\ pc = "execute"
    /\ \E ends \in EndPatterns :
           /\ jobs' = execute_fred_jobs(genetic_calibrations, ends, 1, jobs)
           /\ main' = [main EXCEPT
                          !.jobs_run = @ + Len(genetic_calibrations),
                          !.job_failed =
                              \E k \in DOMAIN ends : ends[k] # "finished"]
    /\ pc' = "evaluate"
    /\ UNCHANGED <<genetic_calibrations, notMainVars>>

\* every candidate is evaluated on the values of its job; an exception
\* ends main
EvaluateGeneration ==
    /\ pc = "evaluate"
    /\ \E means \in MeanPatterns :
           \E r \in {evaluate_generation(genetic_calibrations, jobs, means)} :
               /\ genetic_calibrations' = r.genetic_calibrations
               /\ main' = IF r.out.ok
                          THEN [main EXCEPT !.generations = @ + 1]
                          ELSE [main EXCEPT !.raised = r.out.err]
               /\ pc' = IF r.out.ok THEN "rank" ELSE "done"
    /\ UNCHANGED <<jobs, notMainVars>>

\* the list is sorted, min_error and fred_key_list are taken from it and
\* the loop is left when min_error is below THRESHOLD
Rank ==
    /\ pc = "rank"
    /\ \E sorted \in {list_sort(genetic_calibrations)} :
           /\ genetic_calibrations' = sorted
           /\ main' = [main EXCEPT
                  !.min_error = sorted[1].evaluated_error,
                  !.fred_key_list =
                      [k \in DOMAIN sorted |-> sorted[k].fred_key]]
           /\ pc' = IF below_threshold(sorted[1].evaluated_error)
                    THEN "exit" ELSE "advance"
    /\ UNCHANGED <<jobs, notMainVars>>

\* the test of main with the period its comment speaks of ("every third
\* iteration")
adjusts_every_third(iteration_counter) == iteration_counter % 3 = 0

\* iteration_counter % 2 == 0, the test main makes the weighted adjustments
\* on
adjusts(iteration_counter) == iteration_counter % 2 = 0

\* the next generation: weighted adjustments when iteration_counter is
\* even, genetic mixing when it is odd; an exception ends main.  The call
\* is written down with the round of the loop it is made in.
AdvanceGeneration ==
    /\ pc = "advance"
    /\ \E r \in IF adjusts(main.iteration_counter)
                THEN perform_weighted_parameter_adjustments(
                         genetic_calibrations)
                ELSE SampledMixing(genetic_calibrations) :
           /\ genetic_calibrations' = IF r.out.ok THEN r.out.val
                                      ELSE r.genetic_calibrations
           /\ \E called \in {Append(main.calls,
                     [i |-> main.i,
                      op |-> IF adjusts(main.iteration_counter)
                             THEN "_perform_weighted_parameter_adjustments"
                             ELSE "_perform_genetic_mixing"])} :
                  main' = IF r.out.ok
                          THEN [main EXCEPT !.iteration_counter = @ + 1,
                                            !.advanced = @ + 1,
                                            !.calls = called]
                          ELSE [main EXCEPT !.raised = r.out.err,
                                            !.calls = called]
           /\ pc' = IF r.out.ok THEN "delete" ELSE "done"
    /\ UNCHANGED <<jobs, notMainVars>>

\* the test of main without its condition: the jobs are deleted in every
\* round
deletes_always(i) == TRUE

\* i + 1 < max_iterations, the test main deletes the jobs on
deletes(i) == i + 1 < max_iterations

\* the jobs of the generation are deleted unless it was the last one, and
\* the loop goes on to its next round or ends
DeleteFredJobs ==
    /\ pc = "delete"
    /\ jobs' = IF deletes(main.i)
               THEN delete_fred_jobs(jobs, main.fred_key_list)
               ELSE jobs
    /\ main' = [main EXCEPT !.i = @ + 1]
    /\ pc' = IF main.i + 1 < max_iterations THEN "create" ELSE "exit"
    /\ UNCHANGED <<genetic_calibrations, notMainVars>>

\* sys.exit(1) behind the loop
Exit ==
    /\ pc = "exit"
    /\ main' = [main EXCEPT !.raised = "SystemExit"]
    /\ pc' = "done"
    /\ UNCHANGED <<genetic_calibrations, jobs, notMainVars>>

MainInit ==
    /\ genetic_calibrations \in CreatedPopulations
    /\ advance = NoCall
    /\ main = [i |-> 0, iteration_counter |-> 1, min_error |-> FloatMax,
               fred_key_list |-> <<>>, next_key |-> 0, raised |-> "",
               generations |-> 0, jobs_run |-> 0, job_failed |-> FALSE,
               advanced |-> 0, calls |-> <<>>]
    /\ pc = "create"
    /\ jobs = <<>>
    /\ IdleParam /\ IdleGroup /\ IdleCandidate

MainNext ==
    \/ CreateModelFiles
    \/ ExecuteFredJobs
    \/ EvaluateGeneration
    \/ Rank
    \/ AdvanceGeneration
    \/ DeleteFredJobs
    \/ Exit

SpecMain == MainInit /\ [][MainNext]_vars

\* the points of the code of main
Points ==
    {"create", "execute", "evaluate", "rank", "advance", "delete", "exit",
     "done"}

\* main goes on from the point it has reached to another one
GoesOn == pc # "done" /\ pc' \in Points \ {pc}

\* main is one sequential process and every call it makes returns or
\* raises: as long as it has not ended it goes on
SpecMainFair == SpecMain /\ WF_pc(GoesOn)

\* ------------------------------------------------------------------------
\* Claims about main (under SpecMain and SpecMainFair)
\* ------------------------------------------------------------------------

\* the lowest evaluated error of the candidates of a list
BestError(list) ==
    CHOOSE e \in {list[k].evaluated_error : k \in DOMAIN list} :
        \A k \in DOMAIN list : ~FLt(list[k].evaluated_error, e)

\* main has left its loop
Stopped == pc \in {"exit", "done"}

\* the step that ranks an evaluated generation leaves the loop exactly when
\* the best error is strictly below THRESHOLD, and once the loop is left no
\* generation is produced or evaluated and no job is run
StopsAtThreshold ==
    /\ pc = "rank" =>
           pc' = IF FLt(BestError(genetic_calibrations), THRESHOLD)
                 THEN "exit" ELSE "advance"
    /\ Stopped =>
           /\ Stopped'
           /\ genetic_calibrations' = genetic_calibrations
           /\ jobs' = jobs
           /\ main'.jobs_run = main.jobs_run
           /\ main'.generations = main.generations
           /\ main'.advanced = main.advanced

C12_JobFailurePropagates ==
    [][main.job_failed /\ pc = "evaluate" =>
           /\ genetic_calibrations' = genetic_calibrations
           /\ pc' = "done"]_vars

\* a generation one of whose jobs has failed: the candidates ahead of the
\* one of the failed job have been evaluated on the results of theirs
EvaluatedBehindFailure ==
    /\ main.job_failed
    /\ pc = "done"
    /\ main.generations = 0
    /\ \E k \in DOMAIN genetic_calibrations :
           genetic_calibrations[k].outcomes # <<>>

\* ------------------------------------------------------------------------
\* Inputs and actions of GeneticCalibration.breed and
\* GeneticCalibration.gradient_update_to_target
\* ------------------------------------------------------------------------

\* the BreedableParameter p as the object of identity id: a parameter that
\* exists before a call, while what a constructor returns carries no id
ParameterObject(id, p) ==
    [id |-> id, name |-> p.name, val |-> p.val, min_val |-> p.min_val,
     max_val |-> p.max_val, mutation_prob |-> p.mutation_prob]

\* the group of the parameters (name, value) of a list, in [1, 14] with the
\* mutation_prob 0.2, appended in the order of the list
RECURSIVE GroupOf(_)
GroupOf(pairs) ==
    IF pairs = <<>> THEN BreedableParameterGoup
    ELSE append(GroupOf(SubSeq(pairs, 1, Len(pairs) - 1)),
                ParameterObject(
                    Len(pairs),
                    BreedableParameter(pairs[Len(pairs)][1],
                                       Int2F(pairs[Len(pairs)][2]), Int2F(1),
                                       Int2F(14), Lit(2, 10)).val)).self

\* the groups of the candidates: one and two parameters, values at the two
\* ends of the range, the same names in another order, and another name
CandidateGroups ==
    {GroupOf(pairs) :
        pairs \in {<<<<"x", 3>>>>, <<<<"x", 7>>>>, <<<<"x", 1>>>>,
                   <<<<"x", 14>>>>,
                   <<<<"x", 3>>, <<"y", 3>>>>, <<<<"y", 7>>, <<"x", 7>>>>,
                   <<<<"x", 3>>, <<"z", 7>>>>}}

\* a GeneticCalibration as main sets it up: its group, the target 5 of the
\* metric m, x listed under m, and a threshold
Candidates ==
    {set_threshold(
         set_target_to_parameters_weights(
             set_targets(set_param_group(GeneticCalibration, g).val,
                         <<<<"m", Int2F(5)>>>>).val,
             <<<<"m", <<<<"x", One>>>>>>>>).val,
         t).val :
        g \in CandidateGroups, t \in {Lit(1, 10), Lit(5, 10)}}

\* the outcomes the candidates are evaluated on: off the target, zero, and
\* infinite
CandidateOutcomes == {<<<<"m", v>>>> : v \in {Int2F(3), Zero, Inf}}

CandidateBreed(other) ==
    /\ gc_call = NoCall
    /\ \E r \in gc_breed(gc, other) :
           gc_call' = [op |-> "breed", other |-> other, before |-> gc,
                       out |-> r]
    /\ UNCHANGED <<gc, notCandidateVars>>

CandidateGradientUpdate ==
    /\ gc_call = NoCall
    /\ gc_call' = [op |-> "gradient_update_to_target", before |-> gc,
                   out |-> gc_gradient_update_to_target(gc)]
    /\ UNCHANGED <<gc, notCandidateVars>>

OffspringInit ==
    /\ gc \in Candidates
    /\ gc_call = NoCall
    /\ IdleParam /\ IdleGroup /\ IdleGeneration /\ IdleMain

OffspringNext ==
    \/ \E o \in CandidateOutcomes : Evaluate(o)
    \/ \E other \in Candidates : CandidateBreed(other)
    \/ CandidateGradientUpdate
    \/ CandidateReturn

SpecOffspring == OffspringInit /\ [][OffspringNext]_vars

\* ------------------------------------------------------------------------
\* Claims about the two methods (under SpecOffspring)
\* ------------------------------------------------------------------------

\* breed or gradient_update_to_target has returned
OffspringReturned ==
    gc_call.op \in {"breed", "gradient_update_to_target"} /\ gc_call.out.ok

\* the names of the parameters of a candidate
NamesOf(candidate) == Keys(candidate.param_group.param_index_dict)

\* the two candidates of a breed call differ in the size or in the name set
\* of their groups
GroupsDiffer ==
    \/ Len(gc.param_group.param_list)
           # Len(gc_call.other.param_group.param_list)
    \/ NamesOf(gc) # NamesOf(gc_call.other)

\* what is returned carries the targets, threshold and weights of self, no
\* outcomes and the error sys.float_info.max, and breed raises for two
\* groups of different sizes or name sets
OffspringAsStated ==
    /\ OffspringReturned =>
           /\ gc_call.out.val.targets = gc.targets
           /\ gc_call.out.val.threshold = gc.threshold
           /\ gc_call.out.val.target_to_parameters_weights
                  = gc.target_to_parameters_weights
           /\ gc_call.out.val.outcomes = <<>>
           /\ gc_call.out.val.evaluated_error = FloatMax
    /\ gc_call.op = "breed" /\ GroupsDiffer => ~gc_call.out.ok

\* C13: breed and gradient_update_to_target return a new candidate with the
\* targets, threshold and weights of self, no outcomes and the unevaluated
\* sentinel as evaluated_error, which is not smaller than an error evaluate
\* has stored (here: the one of self); breed fails when the groups of the
\* two candidates differ in size or name set.
C13_Offspring ==
    /\ OffspringAsStated
    /\ OffspringReturned =>
           ~FLt(gc_call.out.val.evaluated_error, gc.evaluated_error)

\* a candidate evaluated on an infinite outcome has bred: the error of the
\* child, which was never evaluated, is below the one of its parent
SentinelBelowError ==
    /\ OffspringReturned
    /\ gc.outcomes # <<>>
    /\ gc.evaluated_error = Inf
    /\ FLt(gc_call.out.val.evaluated_error, gc.evaluated_error)

\* ------------------------------------------------------------------------
\* Actions of the methods of BreedableParameterGoup that build a new group
\* ------------------------------------------------------------------------

GroupBreed(other_param_group) ==
    /\ gcall = NoCall
    /\ \E r \in group_breed(group, other_param_group) :
           gcall' = [op |-> "breed", other |-> other_param_group,
                     before |-> group, out |-> r]
    /\ UNCHANGED <<group, notGroupVars>>

GroupRandomize ==
    /\ gcall = NoCall
    /\ \E r \in randomize(group) :
           gcall' = [op |-> "randomize", before |-> group, out |-> r]
    /\ UNCHANGED <<group, notGroupVars>>

BuildInit ==
    /\ group \in CandidateGroups
    /\ gcall = NoCall
    /\ IdleParam /\ IdleCandidate /\ IdleGeneration /\ IdleMain

BuildNext ==
    \/ \E other \in CandidateGroups : GroupBreed(other)
    \/ GroupRandomize
    \/ \E ot \in MetricInputs, w \in WeightInputs :
           GroupGradientUpdate(ot[1], ot[2], w)
    \/ GroupReturn

SpecBuild == BuildInit /\ [][BuildNext]_vars

\* ------------------------------------------------------------------------
\* Claims about the methods that build a new group (under SpecBuild)
\* ------------------------------------------------------------------------

\* the names of the parameters of a group
NameSet(g) == {g.param_list[i].name : i \in DOMAIN g.param_list}

\* the parameter of a name in a group
Member(g, name) ==
    g.param_list[CHOOSE i \in DOMAIN g.param_list :
                     g.param_list[i].name = name]

\* the position of a name in a group
Position(g, name) ==
    CHOOSE i \in DOMAIN g.param_list : g.param_list[i].name = name

\* the children BreedableParameter.breed may return
Children(self, other_param) ==
    {o.val : o \in {r \in breed_any(self, other_param) : r.ok}}

\* the group g is the breed of self with other: the size and names of self,
\* every member a child of the two members of its name
BredByName(g, self, other) ==
    /\ Len(g.param_list) = Len(self.param_list)
    /\ NameSet(g) = NameSet(self)
    /\ Keys(g.param_index_dict) = NameSet(self)
    /\ \A name \in NameSet(self) :
           Member(g, name) \in Children(Member(self, name),
                                        Member(other, name))

\* a breed call that returns returns the breed by name of two groups of
\* the same names, and one on two groups of different names raises
GroupBreedWhenReturned ==
    gcall.op = "breed" =>
        IF NameSet(group) # NameSet(gcall.other) THEN ~gcall.out.ok
        ELSE gcall.out.ok => BredByName(gcall.out.val, group, gcall.other)

\* C14: BreedableParameterGoup.breed(other) raises when the name sets of the
\* two groups differ (and BreedableParameter.breed when the two names
\* differ); for two groups of the same names it returns a new group of the
\* same size and names whose members are BreedableParameter.breed of the
\* members of self and other of the same name, wherever the names stand.
C14_GroupBreed ==
    /\ \A g, h \in CandidateGroups :
           \A i \in DOMAIN g.param_list, j \in DOMAIN h.param_list :
               g.param_list[i].name # h.param_list[j].name =>
                   \A o \in breed_any(g.param_list[i], h.param_list[j]) :
                       ~o.ok
    /\ gcall.op = "breed" =>
           IF NameSet(group) # NameSet(gcall.other) THEN ~gcall.out.ok
           ELSE /\ gcall.out.ok
                /\ BredByName(gcall.out.val, group, gcall.other)

\* breed has raised on two groups of the same names
BreedRaisedOnSameNames ==
    /\ gcall.op = "breed"
    /\ NameSet(group) = NameSet(gcall.other)
    /\ ~gcall.out.ok
    /\ gcall.out.err = "ZeroDivisionError"

\* breed has returned the breed of two groups that hold the same names at
\* different positions
BredAcrossPositions ==
    /\ gcall.op = "breed"
    /\ gcall.out.ok
    /\ \E name \in NameSet(group) :
           Position(group, name) # Position(gcall.other, name)

\* ------------------------------------------------------------------------
\* The groups and the candidates together: the methods that build a new
\* object, called on a group or on a candidate
\* ------------------------------------------------------------------------

NewObjectsInit == BuildInit \/ OffspringInit

\* one call at a time: a method is called when the call before it has
\* returned
NewObjectsNext ==
    \/ gc_call = NoCall /\ BuildNext
    \/ gcall = NoCall /\ OffspringNext

SpecNewObjects == NewObjectsInit /\ [][NewObjectsNext]_vars

\* the methods of a group and of a candidate that build a new object
Builders == {"randomize", "breed", "gradient_update_to_target"}

\* every parameter of the group g was created by the call that returned g
NewOnly(g) == \A i \in DOMAIN g.param_list : "id" \notin DOMAIN g.param_list[i]

\* a call of a builder leaves the group and the candidate as they are
BuilderKeepsReceiver ==
    /\ gcall = NoCall /\ gcall'.op \in Builders => group' = group
    /\ gc_call = NoCall /\ gc_call'.op \in Builders => gc' = gc

\* what a builder has returned holds new parameters only
BuilderCreates ==
    /\ gcall.op \in Builders /\ gcall.out.ok => NewOnly(gcall.out.val)
    /\ gc_call.op \in Builders /\ gc_call.out.ok =>
           /\ NewOnly(gc_call.out.val.param_group)
           /\ gc_call.before = gc

\* C15: randomize, breed and gradient_update_to_target of a group, and breed
\* and gradient_update_to_target of a candidate, leave the receiver (its
\* parameter list, index, parameter values, outcomes and evaluated error) as
\* it was before the call, and what they return holds parameters created by
\* the call only.
C15_BuildersLeaveReceiver == [][BuilderKeepsReceiver]_vars /\ []BuilderCreates

\* gradient_update_to_target has returned a group holding a copy of a
\* parameter of the receiver that no weight lists: the same attributes, in
\* a parameter of its own
CopiedUnlisted ==
    /\ gcall.op = "gradient_update_to_target"
    /\ gcall.out.ok
    /\ \E i \in DOMAIN group.param_list :
           /\ gcall.out.val.param_list[i]
                  # group.param_list[i]
           /\ ParameterObject(group.param_list[i].id,
                              gcall.out.val.param_list[i])
                  = group.param_list[i]

\* ------------------------------------------------------------------------
\* randomize on a group that parameters were removed from
\* ------------------------------------------------------------------------

RandomizeNext ==
    \/ GroupRandomize
    \/ \E p \in GroupParams : GroupRemove(p)
    \/ GroupClear
    \/ GroupReturn

SpecRandomize == BuildInit /\ [][RandomizeNext]_vars

\* the parameter the index of the group g holds under a name
Indexed(g, name) == g.param_list[Get(g.param_index_dict, name) + 1]

\* the group g holds the names of self, each with the name, range and
\* mutation_prob of the parameter self holds under it and a value in that
\* range
RandomizedFrom(g, self) ==
    /\ Keys(g.param_index_dict) = Keys(self.param_index_dict)
    /\ NameSet(g) = Keys(self.param_index_dict)
    /\ \A name \in Keys(self.param_index_dict) :
           /\ Indexed(g, name).name = name
           /\ Indexed(g, name).name = Indexed(self, name).name
           /\ Indexed(g, name).min_val = Indexed(self, name).min_val
           /\ Indexed(g, name).max_val = Indexed(self, name).max_val
           /\ Indexed(g, name).mutation_prob
                  = Indexed(self, name).mutation_prob
           /\ FLe(Indexed(self, name).min_val, Indexed(g, name).val)
           /\ FLe(Indexed(g, name).val, Indexed(self, name).max_val)

\* C16: randomize() returns a group of the names of the receiver whose
\* members keep the name, min, max and mutation_prob of the receiver's
\* member of the name and hold a value within that member's [min, max].
C16_Randomize ==
    gcall.op = "randomize" =>
        gcall.out.ok /\ RandomizedFrom(gcall.out.val, group)

\* the same for a receiver whose index and list agree
RandomizeOfConsistent ==
    gcall.op = "randomize" /\ IndexConsistent(group) =>
        gcall.out.ok /\ RandomizedFrom(gcall.out.val, group)

\* randomize has returned a group holding a name the receiver has no
\* longer, drawn from the parameter a remove left at the position of another
RandomizedRemoved ==
    /\ gcall.op = "randomize"
    /\ gcall.out.ok
    /\ ~IndexConsistent(group)
    /\ \E name \in NameSet(gcall.out.val) :
           name \notin Keys(group.param_index_dict)

\* ------------------------------------------------------------------------
\* Claims about append and get_as_dictionary (under SpecGroup)
\* ------------------------------------------------------------------------

\* what an append call did to the group: nothing when it raised on a name
\* the group holds; otherwise the parameter stands last in the list and its
\* name is indexed there, the other entries being kept
AppendedAsStated ==
    IF gcall.arg.name \in Keys(gcall.before.param_index_dict)
    THEN ~gcall.out.ok /\ group = gcall.before
    ELSE /\ gcall.out.ok
         /\ group.param_list = Append(gcall.before.param_list, gcall.arg)
         /\ group.param_index_dict
                = Append(gcall.before.param_index_dict,
                         <<gcall.arg.name, Len(group.param_list) - 1>>)

\* the dict get_as_dictionary returned holds, for every name of the index,
\* the value of the parameter that was appended under the name
MappedAsAppended ==
    /\ gcall.out.ok
    /\ Keys(gcall.out.val) = Keys(group.param_index_dict)
    /\ \A name \in Keys(gcall.out.val) :
           \E i \in DOMAIN group.param_list :
               /\ group.param_list[i].name = name
               /\ group.param_list[i].val = Get(gcall.out.val, name)

\* C17: append(p) raises for a name the group holds already and then leaves
\* list and index as they were; otherwise it puts p at the end of the list
\* and indexes its name at that position, so that get_as_dictionary() maps
\* every appended name to the value of the parameter appended under it.
C17_Append ==
    /\ gcall.op = "append" => AppendedAsStated
    /\ gcall.op = "get_as_dictionary" => MappedAsAppended

\* the same for a group that clear and remove have not been called on: it
\* holds a list, and its index and list agree
AppendOnBuilt ==
    /\ gcall.op = "append" /\ gcall.before.param_list_type = "list"
           /\ IndexConsistent(gcall.before) => AppendedAsStated
    /\ gcall.op = "get_as_dictionary" /\ group.param_list_type = "list"
           /\ IndexConsistent(group) => MappedAsAppended

\* append has raised for a name the group does not hold: the group was
\* cleared before, and holds a tuple
AppendAfterClear ==
    /\ gcall.op = "append"
    /\ gcall.arg.name \notin Keys(gcall.before.param_index_dict)
    /\ gcall.before.param_list_type = "tuple"
    /\ ~gcall.out.ok
    /\ gcall.out.err = "AttributeError"

\* get_as_dictionary has returned, under a name, the value of another
\* parameter: a remove of a parameter ahead of it had raised
MappedToOther ==
    /\ gcall.op = "get_as_dictionary"
    /\ gcall.out.ok
    /\ \E name \in Keys(gcall.out.val) :
           \A i \in DOMAIN group.param_list :
               group.param_list[i].name = name =>
                   group.param_list[i].val # Get(gcall.out.val, name)

\* ------------------------------------------------------------------------
\* Inputs and actions of the two constructors
\* ------------------------------------------------------------------------

\* the integers passed as val, min_val and max_val
ConstructInputs == {0, 1, 3, 7, 14, 16}

\* the halves passed as mutation_prob: -0.5, 0.0, 0.5, 1.0 and 1.5
HalvesInputs == {0 - 1, 0, 1, 2, 3}

Construct(name, val, min_val, max_val) ==
    /\ call = NoCall
    /\ call' = [op |-> "Parameter", name |-> name, val |-> val,
                min_val |-> min_val, max_val |-> max_val,
                out |-> Parameter(name, Int2F(val), Int2F(min_val),
                                  Int2F(max_val))]
    /\ UNCHANGED <<param, notParamVars>>

ConstructBreedable(name, val, min_val, max_val, halves) ==
    /\ call = NoCall
    /\ call' = [op |-> "BreedableParameter", name |-> name, val |-> val,
                min_val |-> min_val, max_val |-> max_val,
                halves |-> halves,
                out |-> BreedableParameter(name, Int2F(val), Int2F(min_val),
                                           Int2F(max_val), Lit(halves, 2))]
    /\ UNCHANGED <<param, notParamVars>>

ConstructInit ==
    /\ IdleParam /\ IdleGroup /\ IdleCandidate /\ IdleGeneration /\ IdleMain

ConstructNext ==
    \/ \E n \in Names, v, lo, hi \in ConstructInputs : Construct(n, v, lo, hi)
    \/ \E n \in Names, v, lo, hi \in ConstructInputs, h \in HalvesInputs :
           ConstructBreedable(n, v, lo, hi, h)
    \/ Return

SpecConstruct == ConstructInit /\ [][ConstructNext]_vars

\* ------------------------------------------------------------------------
\* Claims about the two constructors (under SpecConstruct)
\* ------------------------------------------------------------------------

\* the arguments of the call are a value within a range that is not empty
LegalRange ==
    /\ call.min_val <= call.val
    /\ call.val <= call.max_val
    /\ call.min_val < call.max_val

\* C18: Parameter(...) raises when val < min_val, val > max_val or
\* min_val >= max_val and returns for every other input, val == min_val and
\* val == max_val included; BreedableParameter(...) raises in the same
\* cases and, besides, exactly when mutation_prob lies outside [0, 1].
C18_Constructors ==
    /\ call.op = "Parameter" => (call.out.ok <=> LegalRange)
    /\ call.op = "BreedableParameter" =>
           (call.out.ok <=>
                LegalRange /\ 0 <= call.halves /\ call.halves <= 2)
    /\ call.op \in {"Parameter", "BreedableParameter"} /\ call.out.ok =>
           /\ call.out.val.val = Int2F(call.val)
           /\ call.out.val.min_val = Int2F(call.min_val)
           /\ call.out.val.max_val = Int2F(call.max_val)

\* a BreedableParameter was constructed with its value at an end of the
\* range and its mutation_prob at an end of [0, 1]
ConstructedAtEnds ==
    /\ call.op = "BreedableParameter"
    /\ call.out.ok
    /\ call.val \in {call.min_val, call.max_val}
    /\ call.halves \in {0, 2}

\* ------------------------------------------------------------------------
\* Inputs and actions of the comparison operators and of list.sort()
\* ------------------------------------------------------------------------

\* the longest list that is sorted
MaxSorted == 3

\* the i-th candidate of a list before it is evaluated: candidates of odd
\* and of even i differ in parameters, threshold and run
SortedCandidate(i) ==
    Object(i, set_fred_key(
                  CHOOSE c \in Candidates :
                      /\ c.threshold = (IF i % 2 = 0 THEN Lit(1, 10)
                                        ELSE Lit(5, 10))
                      /\ c.param_group
                             = GroupOf(IF i % 2 = 0 THEN <<<<"x", 3>>>>
                                       ELSE <<<<"y", 7>>, <<"x", 7>>>>),
                  Uuid(i)).val)

\* the outcomes a candidate of the list is evaluated on: off the target 5,
\* on it, not a number (an empty cell of the csv file) and infinite
SortOutcomes == {<<<<"m", v>>>> : v \in {Int2F(3), Int2F(5), NaN, Inf}}

EvaluateAt(k, outcomes) ==
    /\ advance = NoCall
    /\ k \in DOMAIN genetic_calibrations
    /\ genetic_calibrations' =
           [genetic_calibrations EXCEPT
               ![k] = Object(@.id, evaluate(@, outcomes).self)]
    /\ advance' = [op |-> "evaluate", k |-> k]
    /\ UNCHANGED notGenerationVars

\* the answers of the six operators for self and other
Comparisons(self, other) ==
    [eq |-> eq(self, other), ne |-> ne(self, other),
     gt |-> gt(self, other), ge |-> ge(self, other),
     lt |-> lt(self, other), le |-> le(self, other)]

Compare(i, j) ==
    /\ advance = NoCall
    /\ i \in DOMAIN genetic_calibrations
    /\ j \in DOMAIN genetic_calibrations
    /\ advance' = [op |-> "compare", i |-> i, j |-> j,
                   out |-> Comparisons(genetic_calibrations[i],
                                       genetic_calibrations[j])]
    /\ UNCHANGED <<genetic_calibrations, notGenerationVars>>

SortList ==
    /\ advance = NoCall
    /\ genetic_calibrations' = list_sort(genetic_calibrations)
    /\ advance' = [op |-> "sort", before |-> genetic_calibrations]
    /\ UNCHANGED notGenerationVars

SortReturn ==
    /\ advance # NoCall
    /\ advance' = NoCall
    /\ UNCHANGED <<genetic_calibrations, notGenerationVars>>

SortInit ==
    /\ \E n \in 1..MaxSorted :
           genetic_calibrations = [i \in 1..n |-> SortedCandidate(i)]
    /\ advance = NoCall
    /\ IdleParam /\ IdleGroup /\ IdleCandidate /\ IdleMain

SortNext ==
    \/ \E k \in 1..MaxSorted, o \in SortOutcomes : EvaluateAt(k, o)
    \/ \E i, j \in 1..MaxSorted : Compare(i, j)
    \/ SortList
    \/ SortReturn

SpecSort == SortInit /\ [][SortNext]_vars

\* ------------------------------------------------------------------------
\* Claims about the comparison operators and the sort (under SpecSort)
\* ------------------------------------------------------------------------

ErrorAt(list, k) == list[k].evaluated_error

\* the operators answered as they answer every two candidates of the list
\* that hold the same two errors
ComparedByError ==
    \A a, b \in DOMAIN genetic_calibrations :
        /\ ErrorAt(genetic_calibrations, a)
               = ErrorAt(genetic_calibrations, advance.i)
        /\ ErrorAt(genetic_calibrations, b)
               = ErrorAt(genetic_calibrations, advance.j)
        => Comparisons(genetic_calibrations[a], genetic_calibrations[b])
               = advance.out

\* the list holds the objects it held before the sort, each once
PermutationOfBefore ==
    /\ Len(genetic_calibrations) = Len(advance.before)
    /\ \A k \in DOMAIN advance.before :
           \E j \in DOMAIN genetic_calibrations :
               genetic_calibrations[j] = advance.before[k]

\* no candidate of the list stands behind one of a higher error
Ascending ==
    \A i, j \in DOMAIN genetic_calibrations :
        i < j => ~FLt(ErrorAt(genetic_calibrations, j),
                      ErrorAt(genetic_calibrations, i))

\* C19: the six comparison operators answer by evaluated_error alone, and
\* list.sort() leaves a permutation of the list in ascending order of
\* evaluated_error, the lowest error first.
C19_SortedByError ==
    /\ advance.op = "compare" => ComparedByError
    /\ advance.op = "sort" => PermutationOfBefore /\ Ascending

\* no candidate of the list holds the error nan
NumbersOnly(list) == \A k \in DOMAIN list : ~IsNaN(ErrorAt(list, k))

\* the same for lists whose errors are numbers, where the order of the
\* errors is total
SortedNumbers ==
    /\ advance.op = "compare" => ComparedByError
    /\ advance.op = "sort" /\ NumbersOnly(advance.before) =>
           /\ PermutationOfBefore
           /\ \A i, j \in DOMAIN genetic_calibrations :
                  i < j => FLe(ErrorAt(genetic_calibrations, i),
                               ErrorAt(genetic_calibrations, j))

\* a sorted list holds a candidate behind one of a higher error, a
\* candidate evaluated to nan standing between them
SortedAroundNaN ==
    /\ advance.op = "sort"
    /\ \E i, k, j \in DOMAIN genetic_calibrations :
           /\ i < k /\ k < j
           /\ IsNaN(ErrorAt(genetic_calibrations, k))
           /\ genetic_calibrations[k].outcomes # <<>>
           /\ FLt(ErrorAt(genetic_calibrations, j),
                  ErrorAt(genetic_calibrations, i))

\* ------------------------------------------------------------------------
\* calibrate_opiod_params.py: the text of the model files
\*
\* A str is the sequence of its characters, a file the sequence of its
\* lines without their line ends.
\* ------------------------------------------------------------------------

Digits == <<"0", "1", "2", "3", "4", "5", "6", "7", "8", "9">>

IsDigit(c) == \E d \in DOMAIN Digits : Digits[d] = c

\* \s of a regular expression, and the characters str.rstrip() strips
IsSpace(c) == c \in {" ", "\t"}

\* the letters of the texts below
Letters == {"a", "b", "c", "x", "y", "A", "C", "D", "E", "F", "I", "L", "P",
            "R"}

\* \w of a regular expression
IsWord(c) == c \in Letters \/ IsDigit(c) \/ c = "_"

\* str.lstrip() and str.rstrip()
RECURSIVE lstrip(_)
lstrip(str) ==
    IF str # <<>> /\ IsSpace(str[1]) THEN lstrip(Tail(str)) ELSE str

RECURSIVE rstrip(_)
rstrip(str) ==
    IF str # <<>> /\ IsSpace(str[Len(str)])
    THEN rstrip(SubSeq(str, 1, Len(str) - 1))
    ELSE str

\* str.startswith(prefix)
startswith(str, prefix) ==
    Len(prefix) <= Len(str) /\ SubSeq(str, 1, Len(prefix)) = prefix

\* str from the character at index k (from 0) on
From(str, k) == SubSeq(str, k + 1, Len(str))

AllDigits(str) == \A k \in DOMAIN str : IsDigit(str[k])

\* the index (from 1) of the first "." of str, or 0
FirstDot(str) ==
    IF \E k \in DOMAIN str : str[k] = "."
    THEN CHOOSE k \in DOMAIN str :
             str[k] = "." /\ \A j \in 1..(k - 1) : str[j] # "."
    ELSE 0

\* (0|[1-9]\d*)? matches the whole of str
IsIntegerPart(str) ==
    \/ str = <<>>
    \/ str = <<"0">>
    \/ AllDigits(str) /\ str[1] # "0"

\* -?(0|[1-9]\d*)?(\.\d+)?(?<=\d) matches the whole of str
IsNumber(str) ==
    LET unsigned == IF str # <<>> /\ str[1] = "-" THEN Tail(str) ELSE str
        dot == FirstDot(unsigned)
    IN  IF dot = 0 THEN unsigned # <<>> /\ IsIntegerPart(unsigned)
        ELSE /\ IsIntegerPart(SubSeq(unsigned, 1, dot - 1))
             /\ From(unsigned, dot) # <<>>
             /\ AllDigits(From(unsigned, dot))

\* -0?(\.0+)?$ matches the whole of str: a negative zero
IsNegativeZero(str) ==
    /\ str # <<>> /\ str[1] = "-"
    /\ LET rest == IF Len(str) > 1 /\ str[2] = "0" THEN From(str, 2)
                   ELSE Tail(str)
       IN  \/ rest = <<>>
           \/ /\ Len(rest) > 1
              /\ rest[1] = "."
              /\ \A k \in 2..Len(rest) : rest[k] = "0"

\* the value of the regular expression of _validate_sweep_parameters,
\* (\w*|(?!-0?(\.0+)?$)-?(0|[1-9]\d*)?(\.\d+)?(?<=\d))\s*$, matches str
\* from its first character to the end of the line
MatchesValue(str) ==
    LET value == rstrip(str)
    IN  \/ \A k \in DOMAIN value : IsWord(value[k])
        \/ IsNumber(value) /\ ~(value = str /\ IsNegativeZero(value))

\* matcher.match(base_param_file_line) for the regular expression of the
\* column column_header_str:  ^\s* name \s*=\s* value \s*$
matcher_match(column_header_str, base_param_file_line) ==
    LET named == lstrip(base_param_file_line)
    IN  /\ startswith(named, column_header_str)
        /\ LET assigned == lstrip(From(named, Len(column_header_str)))
           IN  /\ assigned # <<>>
               /\ assigned[1] = "="
               /\ MatchesValue(lstrip(Tail(assigned)))

\* the lines of a file in reverse, as list.reverse() leaves them
reversed(lines) == [k \in DOMAIN lines |-> lines[Len(lines) + 1 - k]]

\* the position (from 0) of the first line of line_arr that the column
\* matches, or -1
first_match(column_header_str, line_arr) ==
    IF \E k \in DOMAIN line_arr : matcher_match(column_header_str, line_arr[k])
    THEN (CHOOSE k \in DOMAIN line_arr :
              /\ matcher_match(column_header_str, line_arr[k])
              /\ \A j \in 1..(k - 1) :
                     ~matcher_match(column_header_str, line_arr[j])) - 1
    ELSE 0 - 1

\* _validate_sweep_parameters: the dict it returns, columns being
\* sweep_df.columns
validate_sweep_parameters(base_param_file, columns) ==
    LET base_param_file_line_arr == reversed(base_param_file)
        missing_params ==
            SelectSeq(columns, LAMBDA column_header_str :
                first_match(column_header_str, base_param_file_line_arr) < 0)
    IN  IF missing_params # <<>>
        THEN [is_error |-> TRUE, error_message |-> missing_params]
        ELSE [is_error |-> FALSE,
              param_pos_dict |->
                  [k \in DOMAIN columns |->
                      <<columns[k],
                        first_match(columns[k], base_param_file_line_arr)>>]]

\* str(n) for an integer n >= 0
RECURSIVE str(_)
str(n) ==
    IF n < 10 THEN <<Digits[n + 1]>>
    ELSE Append(str(n \div 10), Digits[(n % 10) + 1])

\* '_REPLACE_FIELD_' + str(field_counter) + '_'
ReplaceField(field_counter) ==
    <<"_", "R", "E", "P", "L", "A", "C", "E", "_", "F", "I", "E", "L", "D",
      "_">> \o str(field_counter) \o <<"_">>

\* the index (from 0) of the first item of the dict d that holds the value
\* v: list(d.values()).index(v)
IndexOfValue(d, v) ==
    (CHOOSE k \in DOMAIN d : d[k][2] = v /\ \A j \in 1..(k - 1) : d[j][2] # v)
        - 1

\* the line written for the line at position pos of the reversed file: the
\* field of the first column that param_pos_dict holds at pos, or the line
\* without the whitespace at its end
replacement_line(base_param_file_line, pos, columns, param_pos_dict) ==
    IF \E k \in DOMAIN param_pos_dict : param_pos_dict[k][2] = pos
    THEN LET key_str ==
                 param_pos_dict[IndexOfValue(param_pos_dict, pos) + 1][1]
             field_counter ==
                 CHOOSE k \in DOMAIN columns :
                     /\ columns[k] = key_str
                     /\ \A j \in 1..(k - 1) : columns[j] # key_str
         IN  key_str \o <<" ", "=", " ">> \o ReplaceField(field_counter)
    ELSE rstrip(base_param_file_line)

\* the lines of the temp file, in the order of the base file
replacement_file_line_list(base_param_file, columns, param_pos_dict) ==
    LET base_param_file_line_list == reversed(base_param_file)
    IN  reversed([k \in DOMAIN base_param_file_line_list |->
                     replacement_line(base_param_file_line_list[k], k - 1,
                                      columns, param_pos_dict)])

\* '%.3f' % x for a float x that is a number: the thousandths nearest to x
\* (ties to even), as sign, integer digits, point and three digits
Thousandths(x) ==
    IF x[2] >= 0 THEN IAbs(x[1]) * Pow2(x[2]) * 1000
    ELSE RoundDiv(IAbs(x[1]) * 1000, Pow2(0 - x[2]))

Format3f(x) ==
    LET t == Thousandths(x)
    IN  (IF x[1] < 0 THEN <<"-">> ELSE <<>>)
        \o str(t \div 1000) \o <<".">>
        \o <<Digits[((t \div 100) % 10) + 1],
             Digits[((t \div 10) % 10) + 1], Digits[(t % 10) + 1]>>

\* str.replace(old, new) on a text without line ends in old and new
RECURSIVE replace(_, _, _)
replace(text, old, new) ==
    IF text = <<>> THEN <<>>
    ELSE IF startswith(text, old)
    THEN new \o replace(From(text, Len(old)), old, new)
    ELSE <<text[1]>> \o replace(Tail(text), old, new)

\* the loop over sweep_df.columns that fills the fields of one line of the
\* temp file with the values of a row, from column field_counter on
RECURSIVE replace_fields(_, _, _)
replace_fields(line, row, field_counter) ==
    IF field_counter > Len(row) THEN line
    ELSE replace_fields(replace(line, ReplaceField(field_counter),
                                Format3f(row[field_counter])),
                        row, field_counter + 1)

\* replace_file_str of a row: the lines of its model file (no field and no
\* value holds a line end, so that the text is replaced line by line)
replace_file_str(replacement_lines, row) ==
    [k \in DOMAIN replacement_lines |->
        replace_fields(replacement_lines[k], row, 1)]

\* the characters of a parameter name of one letter
Chars(name) == <<name>>

\* sweep_df.columns of _get_sweep_dataframe_from_genetic_calibrations: the
\* names of the first candidate, in the order of its dictionary
sweep_columns(candidates) ==
    LET first == get_as_dictionary(candidates[1].param_group).val
    IN  [k \in DOMAIN first |-> first[k][1]]

\* the row of the k-th candidate: its values under the columns (candidates
\* of the same names)
sweep_row(candidates, k) ==
    LET columns == sweep_columns(candidates)
        dictionary == get_as_dictionary(candidates[k].param_group).val
    IN  [c \in DOMAIN columns |-> Get(dictionary, columns[c])]

\* the columns as texts
column_texts(candidates) ==
    [c \in DOMAIN sweep_columns(candidates) |->
        Chars(sweep_columns(candidates)[c])]

\* lines 290-293 of main on the lines of the base file: the model file of
\* every candidate, or the KeyError of ['param_pos_dict'] on the dict of a
\* failed validation, raised with the key it did not find
model_files(base_param_file, candidates) ==
    LET columns == column_texts(candidates)
        validated == validate_sweep_parameters(base_param_file, columns)
    IN  IF validated.is_error
        THEN [ok |-> FALSE, err |-> "KeyError", args |-> <<"param_pos_dict">>]
        ELSE LET replacement_lines ==
                     replacement_file_line_list(base_param_file, columns,
                                                validated.param_pos_dict)
             IN  Ok([k \in DOMAIN candidates |->
                        replace_file_str(replacement_lines,
                                         sweep_row(candidates, k))])

\* ------------------------------------------------------------------------
\* Inputs and actions of the creation of the model files
\* ------------------------------------------------------------------------

\* the longest base file, in lines
MaxLines == 3

\* the lines of the base files: assignments of x and y with and without
\* whitespace around them, of another parameter, one followed by a comment,
\* a comment, an empty line, and lines that hold the text of a field
TemplateLines ==
    {<<"x", " ", "=", " ", "1">>,
     <<" ", "x", "=", "1", ".", "5", " ", "\t">>,
     <<"y", " ", "=", " ", "2">>,
     <<"x", "y", " ", "=", " ", "1">>,
     <<"x", " ", "=", " ", "1", " ", "#", " ", "c">>,
     <<"#", " ", "c", " ">>,
     <<>>,
     <<"y", " ", "=", " ">> \o ReplaceField(1),
     <<"#", " ">> \o ReplaceField(2)}

\* the base files
Templates ==
    UNION {[1..n -> TemplateLines] : n \in 1..MaxLines}

\* the lists of candidates the files are created for: one or two candidates
\* of the names x and y, in two orders, or one of the name x
MaterializedLists ==
    LET xy == CHOOSE c \in Candidates :
                  /\ c.threshold = Lit(5, 10)
                  /\ c.param_group = GroupOf(<<<<"x", 3>>, <<"y", 3>>>>)
        yx == CHOOSE c \in Candidates :
                  /\ c.threshold = Lit(5, 10)
                  /\ c.param_group = GroupOf(<<<<"y", 7>>, <<"x", 7>>>>)
        x == CHOOSE c \in Candidates :
                 /\ c.threshold = Lit(5, 10)
                 /\ c.param_group = GroupOf(<<<<"x", 14>>>>)
    IN  {<<Object(1, xy)>>, <<Object(1, xy), Object(2, yx)>>,
         <<Object(1, yx), Object(2, xy)>>, <<Object(1, x)>>}

Materialize(base_param_file) ==
    /\ main = NoCall
    /\ \E r \in {model_files(base_param_file, genetic_calibrations)} :
           /\ main' = [op |-> "create_model_files",
                       base_param_file |-> base_param_file,
                       genetic_calibrations |-> genetic_calibrations,
                       validated |->
                           validate_sweep_parameters(
                               base_param_file,
                               column_texts(genetic_calibrations)),
                       out |-> r]
           /\ genetic_calibrations' =
                  IF r.ok THEN create_model_files(genetic_calibrations, 0)
                  ELSE genetic_calibrations
    /\ UNCHANGED <<pc, jobs, notMainVars>>

MaterializeReturn ==
    /\ main # NoCall
    /\ main' = NoCall
    /\ UNCHANGED <<genetic_calibrations, pc, jobs, notMainVars>>

MaterializeInit ==
    /\ genetic_calibrations \in MaterializedLists
    /\ main = NoCall /\ pc = "idle" /\ jobs = <<>> /\ advance = NoCall
    /\ IdleParam /\ IdleGroup /\ IdleCandidate

MaterializeNext ==
    \/ \E base_param_file \in Templates : Materialize(base_param_file)
    \/ MaterializeReturn

SpecMaterialize == MaterializeInit /\ [][MaterializeNext]_vars

\* ------------------------------------------------------------------------
\* Claims about the model files (under SpecMaterialize)
\* ------------------------------------------------------------------------

\* the model files were created
Materialized == main.op = "create_model_files" /\ main.out.ok

\* the lines of the base file that assign a value to the name
Assignments(name) ==
    {i \in DOMAIN main.base_param_file :
         matcher_match(Chars(name), main.base_param_file[i])}

\* the last of them
LastAssignment(name) ==
    CHOOSE i \in Assignments(name) : \A j \in Assignments(name) : j <= i

\* the names of the candidates
MaterializedNames == NameSet(genetic_calibrations[1].param_group)

\* the line i of the model file of the k-th candidate is as the claim says:
\* the assignment of the candidate's value of a name where the base file
\* assigns the name for the last time, the line of the base file without
\* the whitespace at its end anywhere else
LineAsStated(k, i) ==
    LET line == main.out.val[k][i]
        names == {name \in MaterializedNames : LastAssignment(name) = i}
    IN  IF names # {}
        THEN \E name \in names :
                 line = Chars(name) \o <<" ", "=", " ">>
                            \o Format3f(Member(genetic_calibrations[k]
                                                   .param_group, name).val)
        ELSE line = rstrip(main.base_param_file[i])

FilesAsStated ==
    /\ Len(main.out.val) = Len(genetic_calibrations)
    /\ \A k \in DOMAIN main.out.val :
           /\ Len(main.out.val[k]) = Len(main.base_param_file)
           /\ \A i \in DOMAIN main.base_param_file : LineAsStated(k, i)

\* C20: the model file of a candidate holds the value of every parameter in
\* the last line of the base file that matches `name = <value>` for its
\* name, and every other line of the base file, earlier assignments of the
\* name included, with its text (but for whitespace at its end), the lines
\* in the order of the base file.
C20_LastAssignmentReplaced == Materialized => FilesAsStated

\* the text old stands somewhere in the text
Contains(text, old) ==
    \E k \in 0..Len(text) : startswith(From(text, k), old)

\* no line of the base file holds the text of a field of a column
NoFieldText ==
    \A i \in DOMAIN main.base_param_file :
        \A n \in 1..Cardinality(MaterializedNames) :
            ~Contains(main.base_param_file[i], ReplaceField(n))

\* the same for a base file that holds no text of a field
FilesOfPlainTemplate == Materialized /\ NoFieldText => FilesAsStated

\* a value was written into a line that assigns nothing for the last time:
\* the line held the text of a field, which the values replace wherever it
\* stands
WrittenIntoOtherLine ==
    /\ Materialized
    /\ \E i \in DOMAIN main.base_param_file :
           /\ \A name \in MaterializedNames : LastAssignment(name) # i
           /\ main.out.val[1][i] # rstrip(main.base_param_file[i])

\* ------------------------------------------------------------------------
\* Claims about a base file without a line of a name (under SpecMaterialize)
\* ------------------------------------------------------------------------

\* the names of the candidates that no line of the base file assigns
Unmatched ==
    {name \in MaterializedNames : Assignments(name) = {}}

\* the creation of the model files was called on a base file that misses
\* a line of a name
CalledOnMissing == main.op = "create_model_files" /\ Unmatched # {}

\* the call made no file: it failed, and the candidates are as they were
\* passed, none with the run id of a new file
NoFileWritten ==
    /\ ~main.out.ok
    /\ genetic_calibrations = main.genetic_calibrations

\* the names a sequence of texts lists
NamesListed(texts) == {name \in Names : \E k \in DOMAIN texts : texts[k] = Chars(name)}

\* C21: on a base file without a matching line for a name of a candidate
\* the creation of the model files in the driver fails with an error of
\* missing parameters that lists all the unmatched names together, and no
\* model file of the generation is written.
C21_MissingParameters ==
    CalledOnMissing =>
        /\ NoFileWritten
        /\ main.out.err = "MissingParameterError"
        /\ {main.out.args[k] : k \in DOMAIN main.out.args} = Unmatched

\* what holds instead: the validation does list all the unmatched names
\* together, in the dict it returns, and no file is written; the driver
\* fails on the key of that dict
ValidationListsMissing ==
    CalledOnMissing =>
        /\ NoFileWritten
        /\ main.validated.is_error
        /\ NamesListed(main.validated.error_message) = Unmatched
        /\ Len(main.validated.error_message) = Cardinality(Unmatched)
        /\ main.out.err = "KeyError"
        /\ main.out.args = <<"param_pos_dict">>

\* the driver failed on a base file that misses the lines of two names
FailedOnTwoMissing ==
    /\ CalledOnMissing
    /\ Cardinality(Unmatched) = 2
    /\ main.out.err = "KeyError"

\* ------------------------------------------------------------------------
\* fredutil.py: the id of a key
\*
\* os.environ is a record of the two variables, None for one that is unset.
\* A path is a sequence of names.  The file system is a function of the
\* paths of the results directory, to nothing, a file, or a directory with
\* its entry KEY: nothing, a directory, or a file of lines.
\* ------------------------------------------------------------------------

\* a str among values that may be None: a text, or the names of a path
Str(text) == [type |-> "str", text |-> text]

\* line.split(): the fields of a line between its whitespace
RECURSIVE split(_)
split(line) ==
    LET text == lstrip(line)
        first == CHOOSE n \in 0..Len(text) :
                     /\ \A k \in 1..n : ~IsSpace(text[k])
                     /\ n = Len(text) \/ IsSpace(text[n + 1])
    IN  IF text = <<>> THEN <<>>
        ELSE <<SubSeq(text, 1, first)>> \o split(From(text, first))

\* get_fred_home_dir_str
get_fred_home_dir_str(environ) ==
    IF environ.FRED_HOME = None THEN Raise("FredHomeUnsetError")
    ELSE Ok(environ.FRED_HOME.text)

\* get_fred_results_dir_str
get_fred_results_dir_str(environ) ==
    IF environ.FRED_RESULTS = None
    THEN LET fred_home_dir_str == get_fred_home_dir_str(environ)
         IN  IF ~fred_home_dir_str.ok THEN fred_home_dir_str
             ELSE Ok(Append(fred_home_dir_str.val, "RESULTS"))
    ELSE Ok(environ.FRED_RESULTS.text)

\* the loop over the lines of the KEY file from the line k on
RECURSIVE scan_loop(_, _, _)
scan_loop(keyfile, fred_key, k) ==
    IF k > Len(keyfile) THEN Ok(None)
    ELSE LET fields == split(keyfile[k])
         IN  IF Len(fields) < 1 THEN Raise("IndexError")
             ELSE IF fields[1] = fred_key
                  THEN IF Len(fields) < 2 THEN Raise("IndexError")
                       ELSE Ok(Str(fields[2]))
                  ELSE scan_loop(keyfile, fred_key, k + 1)

\* _scan_key_file_for_id
scan_key_file_for_id(environ, files, fred_key) ==
    LET fred_results_dir_str == get_fred_results_dir_str(environ)
    IN  IF ~fred_results_dir_str.ok THEN fred_results_dir_str
        ELSE LET fred_results_dir_path == files[fred_results_dir_str.val]
             IN  IF fred_results_dir_path.kind = "none"
                 THEN Raise("FileNotFoundError")
                 ELSE IF fred_results_dir_path.kind # "dir"
                 THEN Raise("NotADirectoryError")
                 ELSE IF fred_results_dir_path.KEY.kind = "none"
                 THEN Raise("FileNotFoundError")
                 ELSE IF fred_results_dir_path.KEY.kind = "dir"
                 THEN Raise("IsADirectoryError")
                 ELSE scan_loop(fred_results_dir_path.KEY.lines, fred_key, 1)

\* get_fred_id
get_fred_id(environ, files, fred_key) ==
    scan_key_file_for_id(environ, files, fred_key)

\* ------------------------------------------------------------------------
\* Inputs and actions of get_fred_id
\* ------------------------------------------------------------------------

\* the values of os.environ: each of the two variables unset or set
Environs ==
    [FRED_RESULTS : {None, Str(<<"results">>)},
     FRED_HOME : {None, Str(<<"home">>)}]

\* the paths the results directory may have
ResultsPaths == {<<"results">>, <<"home", "RESULTS">>}

\* the lines of the KEY files: keys with their ids, one key twice, fields
\* apart by more than a blank, a key that begins as another, a key without
\* an id, an empty line
KeyLines ==
    {<<"a", " ", "1">>, <<"b", " ", "2">>, <<"a", " ", "3">>,
     <<" ", "b", "\t", " ", "4", " ">>, <<"a", "b", " ", "5">>,
     <<"b">>, <<>>}

\* the KEY files, the empty one among them
KeyFiles ==
    UNION {[1..n -> KeyLines] : n \in 0..MaxLines}

\* what may stand at the path of a results directory
ResultsNodes ==
    {[kind |-> "none"], [kind |-> "file"],
     [kind |-> "dir", KEY |-> [kind |-> "none"]],
     [kind |-> "dir", KEY |-> [kind |-> "dir"]]}
    \cup {[kind |-> "dir", KEY |-> [kind |-> "file", lines |-> lines]] :
             lines \in KeyFiles}

\* the keys asked for
FredKeys == {<<"a">>, <<"b">>, <<"c">>}

\* the file systems: anything at one of the two paths, nothing or a
\* directory of one key at the other
FileSystems ==
    {[path \in ResultsPaths |-> IF path = at THEN node ELSE other] :
        at \in ResultsPaths, node \in ResultsNodes,
        other \in {[kind |-> "none"],
                   [kind |-> "dir",
                    KEY |-> [kind |-> "file",
                             lines |-> <<<<"c", " ", "9">>>>]]}}

GetFredId(environ, files, fred_key) ==
    /\ main = NoCall
    /\ main' = [op |-> "get_fred_id", environ |-> environ, files |-> files,
                fred_key |-> fred_key,
                out |-> get_fred_id(environ, files, fred_key)]
    /\ UNCHANGED <<genetic_calibrations, pc, jobs, notMainVars>>

GetFredIdReturn ==
    /\ main # NoCall
    /\ main' = NoCall
    /\ UNCHANGED <<genetic_calibrations, pc, jobs, notMainVars>>

FredIdInit ==
    /\ IdleMain /\ IdleGeneration
    /\ IdleParam /\ IdleGroup /\ IdleCandidate

FredIdNext ==
    \/ \E environ \in Environs, files \in FileSystems, fred_key \in FredKeys :
           GetFredId(environ, files, fred_key)
    \/ GetFredIdReturn

SpecFredId == FredIdInit /\ [][FredIdNext]_vars

\* ------------------------------------------------------------------------
\* Claims about get_fred_id (under SpecFredId)
\* ------------------------------------------------------------------------

\* where the results directory is looked for: at the value of
\* FRED_RESULTS, without it under the value of FRED_HOME
ResultsAt ==
    IF main.environ.FRED_RESULTS # None THEN main.environ.FRED_RESULTS.text
    ELSE Append(main.environ.FRED_HOME.text, "RESULTS")

\* what stands there
ResultsNode == main.files[ResultsAt]

\* the lines of the KEY file whose first field is the key
Matching ==
    {k \in DOMAIN ResultsNode.KEY.lines :
        LET fields == split(ResultsNode.KEY.lines[k])
        IN  fields # <<>> /\ fields[1] = main.fred_key}

\* the first of them
FirstMatching == CHOOSE k \in Matching : \A j \in Matching : k <= j

\* the outcome is the one the claim names
FredIdAsStated ==
    IF main.environ.FRED_RESULTS = None /\ main.environ.FRED_HOME = None
    THEN main.out = Raise("FredHomeUnsetError")
    ELSE IF ResultsNode.kind = "none"
    THEN main.out = Raise("FileNotFoundError")
    ELSE IF ResultsNode.kind = "file"
    THEN main.out = Raise("NotADirectoryError")
    ELSE IF ResultsNode.KEY.kind = "none"
    THEN main.out = Raise("FileNotFoundError")
    ELSE IF ResultsNode.KEY.kind = "dir"
    THEN main.out = Raise("IsADirectoryError")
    ELSE IF Matching = {}
    THEN main.out = Ok(None)
    ELSE LET fields == split(ResultsNode.KEY.lines[FirstMatching])
         IN  Len(fields) >= 2 /\ main.out = Ok(Str(fields[2]))

\* C22: get_fred_id(key) raises FredHomeUnsetError when neither
\* FRED_RESULTS nor FRED_HOME is set, FileNotFoundError when the results
\* directory or its KEY file does not exist, NotADirectoryError when the
\* results directory is a file, IsADirectoryError when KEY is a directory;
\* otherwise it returns the id of the first line of KEY whose first field
\* is the key, and None when no line is such, as in an empty KEY file.
C22_GetFredId == main.op = "get_fred_id" => FredIdAsStated

\* a KEY file is read, and every line of it holds a key and an id
KeyAndIdLines ==
    /\ ~(main.environ.FRED_RESULTS = None /\ main.environ.FRED_HOME = None)
    /\ ResultsNode.kind = "dir"
    /\ ResultsNode.KEY.kind = "file"
    => \A k \in DOMAIN ResultsNode.KEY.lines :
           Len(split(ResultsNode.KEY.lines[k])) >= 2

\* the same for KEY files of lines of a key and an id
FredIdOfKeyAndIdLines ==
    main.op = "get_fred_id" /\ KeyAndIdLines => FredIdAsStated

\* get_fred_id failed on a line without fields that stands before the
\* line of the key
FailedOnEmptyLine ==
    /\ main.op = "get_fred_id"
    /\ main.out = Raise("IndexError")
    /\ Matching # {}
    /\ \E k \in 1..(FirstMatching - 1) : split(ResultsNode.KEY.lines[k]) = <<>>

\* ------------------------------------------------------------------------
\* Claims about the strategies of main (under SpecMain)
\* ------------------------------------------------------------------------

\* the strategy of an iteration by its number from 1: genetic mixing for an
\* odd one, weighted adjustments for an even one
StrategyOf(iteration) ==
    IF iteration % 2 = 1 THEN "_perform_genetic_mixing"
    ELSE "_perform_weighted_parameter_adjustments"

OutgoingKeys == {main.fred_key_list[k] : k \in DOMAIN main.fred_key_list}

\* the job store holds a job of the run id
HasJob(key) == \E j \in DOMAIN jobs : jobs[j].key = key

\* the step of main behind an advance deletes the job of every run id of
\* the outgoing generation unless the round is the last one; no other step
\* of main removes a job: not the last round, not the step that leaves the
\* loop below the threshold, not one behind the loop
DeletesOutgoing ==
    /\ pc = "delete" /\ main.i + 1 < max_iterations =>
           \A key \in OutgoingKeys :
               HasJob(key) /\ \A j \in DOMAIN jobs' : jobs'[j].key # key
    /\ ~(pc = "delete" /\ main.i + 1 < max_iterations) =>
           \A j \in DOMAIN jobs : j \in DOMAIN jobs' /\ jobs'[j] = jobs[j]

\* the run ids of the outgoing generation are those of all its candidates
RankedAll ==
    pc = "advance" =>
        /\ OutgoingKeys = {genetic_calibrations[k].fred_key :
                              k \in DOMAIN genetic_calibrations}
        /\ \A key \in OutgoingKeys : HasJob(key)

\* when the jobs of a generation are run no job of the one before is left
NoneLeftAtRun ==
    pc = "execute" => \A key \in OutgoingKeys : ~HasJob(key)

\* main has left its loop below the threshold or behind its last round
LeftLoop == pc = "exit" \/ (pc = "done" /\ main.raised = "SystemExit")

\* then the jobs of the generation ranked last are all there, the one of
\* its best candidate among them
KeptAtEnd ==
    LeftLoop =>
        /\ main.fred_key_list # <<>>
        /\ \A key \in OutgoingKeys : HasJob(key)

TemplateNames == NameSet(CreatedCandidate(1, 3).param_group)

\* the names a group holds, in its list and in its index
HeldNames(g) ==
    {g.param_list[k].name : k \in DOMAIN g.param_list}
        \cup Keys(g.param_index_dict)

\* C25: in every generation of main, from the candidates it creates through
\* every advance of either strategy, the list holds exactly 10 candidates
\* and the group of every candidate holds exactly the names of the group
\* main began with, so that neither advance raises the error of a list of
\* another size.
C25_TenOfSameNames ==
    /\ Len(genetic_calibrations) = 10
    /\ \A k \in DOMAIN genetic_calibrations :
           /\ HeldNames(genetic_calibrations[k].param_group) = TemplateNames
           /\ NameSet(genetic_calibrations[k].param_group) = TemplateNames
    /\ main.raised # "IndexError"

\* a generation made of two advances, one of either strategy, is about to
\* be given its model files
TwiceAdvanced ==
    /\ pc = "create"
    /\ main.advanced = 2
    /\ \E k \in DOMAIN genetic_calibrations :
           genetic_calibrations[k].id > 2 * trials_per_iteration

\* the same of the groups the builders return, for groups of two names in
\* either order (under SpecBuild)
BuiltOfSameNames ==
    gcall.op \in {"breed", "randomize", "gradient_update_to_target"}
        /\ gcall.out.ok
    => /\ HeldNames(gcall.out.val) = NameSet(group)
       /\ Len(gcall.out.val.param_list) = Len(group.param_list)

\* ------------------------------------------------------------------------
\* main with a simulator whose outcomes are a function of the parameters
\* ------------------------------------------------------------------------

\* the simulators: the last mean of m as a function of the value of x
Simulators == {"far", "same", "threefold", "gap"}

\* the simulators all of whose outcomes are numbers
NumberSimulators == Simulators \ {"gap"}

\* the last mean of m of a job run on the value x: 14 whatever x is; x
\* itself; 3 x; or, with a gap, an empty cell for x = 5, 3 x for x = 3 and
\* 14 for every other x
Simulate(simulator, x) ==
    CASE simulator = "far" -> Int2F(14)
      [] simulator = "same" -> x
      [] simulator = "threefold" -> FMul(Int2F(3), x)
      [] simulator = "gap" ->
             IF FEq(x, Int2F(5)) THEN NaN
             ELSE IF FEq(x, Int2F(3)) THEN FMul(Int2F(3), x)
             ELSE Int2F(14)

\* the lowest number among the evaluated errors of a list, nan when none of
\* them is a number
Lowest(list) ==
    LET numbers == {list[k].evaluated_error : k \in DOMAIN list}
                       \ {NaN}
    IN  IF numbers = {} THEN NaN
        ELSE CHOOSE e \in numbers : \A f \in numbers : FLe(e, f)

\* the generation as it is written down behind its evaluation: its lowest
\* error, the candidates of that error and all its candidates
Evaluated(list) ==
    [error |-> Lowest(list),
     best |-> {list[k].id : k \in {j \in DOMAIN list :
                  list[j].evaluated_error = Lowest(list)}},
     all |-> {list[k].id : k \in DOMAIN list}]

\* the evaluation loop of main on the means of the simulator; the
\* generation is written down
EvaluateSimulated ==
    /\ pc = "evaluate"
    /\ \E means \in {[k \in DOMAIN genetic_calibrations |->
                        <<<<"m", Simulate(main.simulator,
                                          XOf(genetic_calibrations[k]))>>>>]} :
           \E r \in {evaluate_generation(genetic_calibrations, jobs, means)} :
               /\ genetic_calibrations' = r.genetic_calibrations
               /\ main' = IF r.out.ok
                          THEN [main EXCEPT
                                   !.generations = @ + 1,
                                   !.best = Append(@,
                                       Evaluated(r.genetic_calibrations))]
                          ELSE [main EXCEPT !.raised = r.out.err]
               /\ pc' = IF r.out.ok THEN "rank" ELSE "done"
    /\ UNCHANGED <<jobs, notMainVars>>

SimulatedInit ==
    /\ genetic_calibrations \in CreatedPopulations
    /\ advance = NoCall
    /\ \E simulator \in Simulators :
           main = [i |-> 0, iteration_counter |-> 1, min_error |-> FloatMax,
                   fred_key_list |-> <<>>, next_key |-> 0, raised |-> "",
                   generations |-> 0, jobs_run |-> 0, job_failed |-> FALSE,
                   advanced |-> 0, calls |-> <<>>,
                   simulator |-> simulator, best |-> <<>>]
    /\ pc = "create"
    /\ jobs = <<>>
    /\ IdleParam /\ IdleGroup /\ IdleCandidate

SimulatedNext ==
    \/ CreateModelFiles
    \/ ExecuteFredJobs
    \/ EvaluateSimulated
    \/ Rank
    \/ AdvanceGeneration
    \/ DeleteFredJobs
    \/ Exit

SpecSimulated == SimulatedInit /\ [][SimulatedNext]_vars

\* ------------------------------------------------------------------------
\* Claims about the best error of the generations (under SpecSimulated)
\* ------------------------------------------------------------------------

\* a candidate of the lowest error of generation g - 1 is a candidate of
\* generation g
Carried(g) == main.best[g - 1].best \cap main.best[g].all # {}

\* C26: with a simulator whose outcomes are a function of the values of the
\* parameters of a candidate, the best evaluated error of a generation is
\* never greater than the best evaluated error of the generation before
\* it, both advances carrying the best candidate on with its parameters.
C26_BestNeverWorse ==
    \A g \in DOMAIN main.best :
        g > 1 => /\ FLe(main.best[g].error, main.best[g - 1].error)
                 /\ Carried(g)

\* the same for the simulators whose outcomes are all numbers
BestNeverWorseOnNumbers ==
    main.simulator \in NumberSimulators => C26_BestNeverWorse

\* the candidates of a generation have no number for an error, the best of
\* the generation before, which had one, not being among them: the sort had
\* left a candidate of the error nan in the first place
BestLostBehindNaN ==
    /\ Len(main.best) >= 2
    /\ ~IsNaN(main.best[Len(main.best) - 1].error)
    /\ IsNaN(main.best[Len(main.best)].error)
    /\ ~Carried(Len(main.best))

\* the best candidate of a generation was carried on among candidates of a
\* higher error
CarriedAmongWorse ==
    /\ Len(main.best) >= 2
    /\ main.simulator \in NumberSimulators
    /\ Carried(2)
    /\ main.best[2].best # main.best[2].all

\* ------------------------------------------------------------------------
\* Claims about the candidates main ranks (under SpecMain)
\* ------------------------------------------------------------------------

\* the numbers of the run ids drawn in the round main is in
DrawnInRound ==
    (main.next_key - Len(genetic_calibrations) + 1)..main.next_key

\* when main is about to sort a generation and to decide, every candidate
\* holds a run id drawn in this round, its own, under which a job has run
\* to its end, and an error that is not the one of a candidate never
\* evaluated
RankedFresh ==
    pc = "rank" =>
        \A k \in DOMAIN genetic_calibrations :
            LET candidate == genetic_calibrations[k]
            IN  /\ candidate.fred_key # None
                /\ candidate.fred_key.key \in DrawnInRound
                /\ \A j \in DOMAIN genetic_calibrations :
                       j # k => genetic_calibrations[j].fred_key
                                    # candidate.fred_key
                /\ \E j \in DOMAIN jobs :
                       /\ jobs[j].key = candidate.fred_key
                       /\ jobs[j].status = "FINISHED"
                /\ candidate.outcomes # <<>>
                /\ candidate.evaluated_error # FloatMax

\* the step that brings main there has evaluated every candidate, the ones
\* carried on from the generation before as well, on means of this round
EvaluatesAll ==
    pc = "evaluate" /\ pc' = "rank" =>
        \E means \in MeanPatterns :
            \A k \in DOMAIN genetic_calibrations :
                /\ genetic_calibrations'[k].id = genetic_calibrations[k].id
                /\ genetic_calibrations'[k].outcomes = means[k]
                /\ genetic_calibrations'[k]
                       = Object(genetic_calibrations[k].id,
                                evaluate(genetic_calibrations[k],
                                         means[k]).self)

\* main comes to its sort from the evaluation alone
RanksEvaluated == pc # "rank" /\ pc' = "rank" => pc = "evaluate"

\* C27: whenever main sorts a generation and decides to stop or to advance,
\* every candidate of the generation, the ones carried on unchanged
\* included, was given a model file under a new run id, run and evaluated
\* in that generation: none is ranked with the error of a candidate never
\* evaluated or with an error of an earlier run id.
C27_RankedInGeneration ==
    /\ [][EvaluatesAll /\ RanksEvaluated]_vars
    /\ []RankedFresh

\* main is about to sort its third generation, which holds a candidate
\* carried on from the first one
CarriedRanked ==
    /\ pc = "rank"
    /\ main.generations = 3
    /\ \E k \in DOMAIN genetic_calibrations :
           /\ genetic_calibrations[k].id <= trials_per_iteration
           /\ genetic_calibrations[k].fred_key.key
                  > 2 * trials_per_iteration

\* ------------------------------------------------------------------------
\* fred_job.py and fred_delete.py: two processes at one KEY file
\* ------------------------------------------------------------------------
\* In this part pc gives each of the two processes its place in its code,
\* and main holds what they share: the environment they were started in,
\* the KEY file of the results directory, the temporary file of
\* delete_key, and the locks held on the semaphore files.

\* get_fred_semaphore_file_name
get_fred_semaphore_file_name(environ) ==
    IF environ.FRED_SEMAPHORE = None THEN <<".results.lck">>
    ELSE environ.FRED_SEMAPHORE.text

\* the semaphore file fred_job opens: in the home directory
job_sem_file(environ) ==
    get_fred_home_dir_str(environ).val \o get_fred_semaphore_file_name(environ)

\* the semaphore file delete_key opens: in the results directory
fred_sem_file_path(environ) ==
    get_fred_results_dir_str(environ).val
        \o get_fred_semaphore_file_name(environ)

\* fcntl.flock(sem_file, LOCK_EX | LOCK_NB) of a process: the locks after
\* it, BlockingIOError when another process holds a lock on the file
flock(locks, path, process) ==
    IF \E l \in locks : l.path = path /\ l.by # process
    THEN Raise("BlockingIOError")
    ELSE Ok(locks \cup {[path |-> path, by |-> process]})

\* fcntl.flock(sem_file, LOCK_UN), and the closing of the file
unlock(locks, process) == {l \in locks : l.by # process}

\* _valid_key: the loop over the lines of the KEY file from the line k on
RECURSIVE valid_key_loop(_, _, _)
valid_key_loop(lines, key, k) ==
    IF k > Len(lines) THEN Ok(TRUE)
    ELSE LET fields == split(lines[k])
         IN  IF Len(fields) < 1 THEN Raise("IndexError")
             ELSE IF fields[1] = key THEN Ok(FALSE)
             ELSE valid_key_loop(lines, key, k + 1)

\* _valid_key
valid_key(key, lines) == valid_key_loop(lines, key, 1)

\* delete_key: the loop that copies the lines of the other keys, from the
\* line k on
RECURSIVE copy_loop(_, _, _)
copy_loop(lines, key, k) ==
    IF k > Len(lines) THEN Ok(<<>>)
    ELSE LET fields == split(lines[k])
         IN  IF Len(fields) < 1 THEN Raise("IndexError")
             ELSE LET rest == copy_loop(lines, key, k + 1)
                  IN  IF ~rest.ok THEN rest
                      ELSE IF fields[1] # key
                      THEN Ok(<<lines[k]>> \o rest.val)
                      ELSE rest

\* the key fred_job registers, the key fred_delete removes, and the id
\* uuid.uuid4() gives the new job
registered_key == <<"a">>

deleted_key == <<"b">>

job_id == <<"7">>

\* f'{key} {id}' of the line fred_job writes
key_id_line(key, id) == key \o <<" ">> \o id

\* the environments of the two processes: the home directory set, the
\* results directory unset, elsewhere, or the home directory itself; the
\* name of the semaphore file unset or set
ProcessEnvirons ==
    [FRED_HOME : {Str(<<"home">>)},
     FRED_RESULTS : {None, Str(<<"results">>), Str(<<"home">>)},
     FRED_SEMAPHORE : {None, Str(<<".lock">>)}]

\* the KEY files the processes start at: the key to remove registered,
\* alone or with another key, the key to register in none of them
KeyFilesAtStart ==
    {<<<<"b", " ", "2">>>>,
     <<<<"b", " ", "2">>, <<"c", " ", "9">>>>,
     <<<<"c", " ", "9">>, <<"b", " ", "2">>>>}

Processes == {"fred_job", "fred_delete"}

\* a process ends with its exit status
Returned(process, status) ==
    /\ pc' = [pc EXCEPT ![process] = "done"]
    /\ main' = [main EXCEPT !.status[process] = status,
                            !.locks = unlock(main.locks, process)]

\* fred_job up to the lock: the semaphore file of the home directory is
\* opened and locked without waiting
JobLock ==
    /\ main # NoCall /\ main.op = "processes"
    /\ pc["fred_job"] = "start"
    /\ LET locked == flock(main.locks, job_sem_file(main.environ),
                           "fred_job")
       IN  IF ~locked.ok THEN Returned("fred_job", "EXT_CD_ERR")
           ELSE /\ main' = [main EXCEPT !.locks = locked.val]
                /\ pc' = [pc EXCEPT !["fred_job"] = "valid_key"]
    /\ UNCHANGED <<genetic_calibrations, jobs, notMainVars>>

\* fred_job: the key is looked for in the KEY file
JobValidKey ==
    /\ main # NoCall /\ main.op = "processes"
    /\ pc["fred_job"] = "valid_key"
    /\ LET valid == valid_key(registered_key, main.KEY)
       IN  IF ~valid.ok THEN Returned("fred_job", valid.err)
           ELSE IF ~valid.val THEN Returned("fred_job", "EXT_CD_ERR")
           ELSE /\ pc' = [pc EXCEPT !["fred_job"] = "write"]
                /\ main' = main
    /\ UNCHANGED <<genetic_calibrations, jobs, notMainVars>>

\* fred_job: the line of the key and the id is appended to the KEY file
JobWrite ==
    /\ main # NoCall /\ main.op = "processes"
    /\ pc["fred_job"] = "write"
    /\ main' = [main EXCEPT
                  !.KEY = Append(@, key_id_line(registered_key, job_id))]
    /\ pc' = [pc EXCEPT !["fred_job"] = "unlock"]
    /\ UNCHANGED <<genetic_calibrations, jobs, notMainVars>>

\* fred_job: the lock is given back; the job is registered
JobUnlock ==
    /\ main # NoCall /\ main.op = "processes"
    /\ pc["fred_job"] = "unlock"
    /\ Returned("fred_job", "EXT_CD_NRM")
    /\ UNCHANGED <<genetic_calibrations, jobs, notMainVars>>

\* fred_delete up to delete_key: the directory of the job is looked up by
\* the key, without a lock
DeleteLookup ==
    /\ main # NoCall /\ main.op = "processes"
    /\ pc["fred_delete"] = "start"
    /\ LET fred_id == scan_loop(main.KEY, deleted_key, 1)
       IN  IF ~fred_id.ok THEN Returned("fred_delete", fred_id.err)
           ELSE IF fred_id.val = None
           THEN Returned("fred_delete", "EXT_CD_NRM")
           ELSE /\ pc' = [pc EXCEPT !["fred_delete"] = "lock"]
                /\ main' = main
    /\ UNCHANGED <<genetic_calibrations, jobs, notMainVars>>

\* delete_key: the semaphore file of the results directory is opened and
\* locked without waiting
DeleteLock ==
    /\ main # NoCall /\ main.op = "processes"
    /\ pc["fred_delete"] = "lock"
    /\ LET locked == flock(main.locks, fred_sem_file_path(main.environ),
                           "fred_delete")
       IN  IF ~locked.ok THEN Returned("fred_delete", "EXT_CD_ERR")
           ELSE /\ main' = [main EXCEPT !.locks = locked.val]
                /\ pc' = [pc EXCEPT !["fred_delete"] = "copy"]
    /\ UNCHANGED <<genetic_calibrations, jobs, notMainVars>>

\* delete_key: the lines of the other keys are copied to the temporary
\* file
DeleteCopy ==
    /\ main # NoCall /\ main.op = "processes"
    /\ pc["fred_delete"] = "copy"
    /\ LET copied == copy_loop(main.KEY, deleted_key, 1)
       IN  IF ~copied.ok THEN Returned("fred_delete", copied.err)
           ELSE /\ main' = [main EXCEPT
                              !.tmp = [kind |-> "file", lines |-> copied.val]]
                /\ pc' = [pc EXCEPT !["fred_delete"] = "replace"]
    /\ UNCHANGED <<genetic_calibrations, jobs, notMainVars>>

\* delete_key: os.replace puts the temporary file in the place of KEY
DeleteReplace ==
    /\ main # NoCall /\ main.op = "processes"
    /\ pc["fred_delete"] = "replace"
    /\ main' = [main EXCEPT !.KEY = main.tmp.lines,
                            !.tmp = [kind |-> "none"]]
    /\ pc' = [pc EXCEPT !["fred_delete"] = "unlock"]
    /\ UNCHANGED <<genetic_calibrations, jobs, notMainVars>>

\* delete_key gives the lock back, fred_delete removes the directory of
\* the job
DeleteUnlock ==
    /\ main # NoCall /\ main.op = "processes"
    /\ pc["fred_delete"] = "unlock"
    /\ Returned("fred_delete", "EXT_CD_NRM")
    /\ UNCHANGED <<genetic_calibrations, jobs, notMainVars>>

ProcessesInit ==
    /\ IdleGeneration /\ IdleParam /\ IdleGroup /\ IdleCandidate
    /\ jobs = <<>>
    /\ pc = [process \in Processes |-> "start"]
    /\ \E environ \in ProcessEnvirons, lines \in KeyFilesAtStart :
           main = [op |-> "processes", environ |-> environ, KEY |-> lines,
                   tmp |-> [kind |-> "none"], locks |-> {},
                   status |-> [process \in Processes |-> "running"]]

ProcessesNext ==
    \/ JobLock
    \/ JobValidKey
    \/ JobWrite
    \/ JobUnlock
    \/ DeleteLookup
    \/ DeleteLock
    \/ DeleteCopy
    \/ DeleteReplace
    \/ DeleteUnlock

SpecProcesses == ProcessesInit /\ [][ProcessesNext]_vars

\* ------------------------------------------------------------------------
\* Claims about fred_job and fred_delete at one KEY file (under
\* SpecProcesses)
\* ------------------------------------------------------------------------

\* both processes have ended
BothFinished == \A process \in Processes : pc[process] = "done"

\* the KEY file holds a line of the key
HasEntry(key) ==
    \E k \in 1..Len(main.KEY) :
        LET fields == split(main.KEY[k])
        IN  Len(fields) >= 1 /\ fields[1] = key

\* the process is between taking its lock and giving it back
InLocked(process) == pc[process] \notin {"start", "lock", "done"}

\* C28: a fred_job that registers a key and a fred_delete that removes
\* another key are never both between their lock and their unlock, and
\* once both have ended the KEY file holds the entry of the registered
\* key.
C28_Exclusion ==
    /\ ~(InLocked("fred_job") /\ InLocked("fred_delete"))
    /\ BothFinished => HasEntry(registered_key)

\* the two processes open the same semaphore file
SameSemaphore ==
    job_sem_file(main.environ) = fred_sem_file_path(main.environ)

\* What holds: when the results directory is the home directory, so that
\* both open the same semaphore file, the two are never both between lock
\* and unlock, and the entry of a fred_job that ended with the normal
\* status is in the KEY file once both have ended.
ExclusionAtSameSemaphore ==
    SameSemaphore =>
        /\ ~(InLocked("fred_job") /\ InLocked("fred_delete"))
        /\ BothFinished /\ main.status["fred_job"] = "EXT_CD_NRM"
               => HasEntry(registered_key)

\* both ended with the normal status, and the entry of the registered key
\* is not in the KEY file
EntryLost ==
    /\ BothFinished
    /\ \A process \in Processes : main.status[process] = "EXT_CD_NRM"
    /\ ~HasEntry(registered_key)

\* with one semaphore file fred_job found it locked and ended without
\* registering its key
NotRegisteredAtLock ==
    /\ SameSemaphore /\ BothFinished
    /\ main.status["fred_job"] = "EXT_CD_ERR"
    /\ ~HasEntry(registered_key)

\* ------------------------------------------------------------------------
\* gradient_update_to_target with every metric on its target
\* ------------------------------------------------------------------------

\* the values of the metrics
OnTargetValues == {Int2F(3), Int2F(5), Lit(1, 2)}

\* <<outcomes, targets>> with every outcome equal to its target, none of
\* them zero: of the metrics m and n, and of m alone
OnTargetInputs ==
    {<<<<<<"m", vm>>, <<"n", vn>>>>, <<<<"m", vm>>, <<"n", vn>>>>>> :
        vm \in OnTargetValues, vn \in OnTargetValues}
    \cup {<<<<<<"m", vm>>>>, <<<<"m", vm>>>>>> : vm \in OnTargetValues}

\* a weight mapping whose weights are all 1.0
UnitWeightsOfM == <<"m", <<<<"x", One>>, <<"y", One>>>>>>

\* the weight mappings of the calls: those of the group operations, and
\* the one of unit weights
OnTargetWeights == WeightInputs \cup {<<UnitWeightsOfM>>}

OnTargetNext ==
    \/ \E p \in GroupParams : GroupAppend(p)
    \/ \E ot \in OnTargetInputs, w \in OnTargetWeights :
           GroupGradientUpdate(ot[1], ot[2], w)
    \/ GroupReturn

SpecOnTarget == GroupInit /\ [][OnTargetNext]_vars

\* ------------------------------------------------------------------------
\* Claims about gradient_update_to_target on target (under SpecOnTarget)
\* ------------------------------------------------------------------------

\* the k-th indexed parameter of the group the call was made on
IndexedParam(k) == group.param_list[group.param_index_dict[k][2] + 1]

\* the value of the k-th parameter of the returned group is the value the
\* k-th indexed parameter has
ValueKept(k) == gcall.out.val.param_list[k].val = IndexedParam(k).val

\* C29: when every outcome equals its nonzero target,
\* gradient_update_to_target returns a group in which every parameter has
\* the value it had, whatever the weights are.
C29_OnTargetUnchanged ==
    GradientReturned
    => \A k \in DOMAIN group.param_index_dict : ValueKept(k)

\* the weight of the parameter name in the first weight map listing it
FirstWeight(name) == Get(gcall.weights[FirstListed(name)][2], name)

\* What holds: on target the multiplier of every metric is 1.0; a parameter
\* no weight map lists, or one whose first weight is 1.0, keeps its value,
\* and every other parameter is moved by 0.85 of the way to its value
\* times its weight.
OnTargetMovesByWeight ==
    GradientReturned
    => /\ \A metric \in Keys(gcall.outcomes) : Reciprocal(metric) = One
       /\ \A k \in DOMAIN group.param_index_dict :
              LET name == group.param_index_dict[k][1]
              IN  IF Listed(name) = {} \/ FirstWeight(name) = One
                  THEN ValueKept(k)
                  ELSE /\ ~ValueKept(k)
                       /\ Ok(gcall.out.val.param_list[k])
                              = move_towards_value(IndexedParam(k),
                                    FMul(IndexedParam(k).val,
                                         FirstWeight(name)),
                                    GradientRate)

\* on target a parameter of weight 0.5 came back with another value, a
\* parameter of weight 1.0 and an unlisted one with their own
MovedOnTarget ==
    /\ GradientReturned
    /\ \E k \in DOMAIN group.param_index_dict :
           /\ Listed(group.param_index_dict[k][1]) # {}
           /\ FirstWeight(group.param_index_dict[k][1]) = Lit(1, 2)
           /\ ~ValueKept(k)
    /\ \E k \in DOMAIN group.param_index_dict :
           /\ Listed(group.param_index_dict[k][1]) # {}
           /\ FirstWeight(group.param_index_dict[k][1]) = One
           /\ ValueKept(k)
    /\ \E k \in DOMAIN group.param_index_dict :
           Listed(group.param_index_dict[k][1]) = {} /\ ValueKept(k)

\* ------------------------------------------------------------------------
\* Claims about clear and a following append (under SpecGroup)
\* ------------------------------------------------------------------------

\* the group is as clear leaves a group
AsCleared(g) == g = clear(g).self

\* append has returned and its parameter is the only member of the group
OnlyMember ==
    /\ gcall.out.ok
    /\ Len(group.param_list) = 1 /\ group.param_list[1] = gcall.arg
    /\ get_as_dictionary(group)
           = Ok(<<<<gcall.arg.name, gcall.arg.val>>>>)

\* clear has returned and the mapping of the group is empty
ClearedEmpty ==
    /\ gcall.out.ok
    /\ Len(group.param_list) = 0
    /\ get_as_dictionary(group) = Ok(<<>>)

\* C30: after clear() the mapping of the group is empty, and an append of
\* any parameter to the group as clear left it returns and makes that
\* parameter the only member, as on a newly created group.
C30_ClearedAsNew ==
    /\ gcall.op = "clear" => ClearedEmpty
    /\ gcall.op = "append" /\ AsCleared(gcall.before) => OnlyMember

\* What holds: clear returns and leaves the mapping empty, and an append
\* to a newly created group makes its parameter the only member.
ClearEmptiesNewAccepts ==
    /\ gcall.op = "clear" => ClearedEmpty
    /\ gcall.op = "append" /\ gcall.before = BreedableParameterGoup
           => OnlyMember

\* an append to a cleared group has raised AttributeError and left the
\* group empty
ClearedRejectsAppend ==
    /\ gcall.op = "append" /\ AsCleared(gcall.before)
    /\ ~gcall.out.ok /\ gcall.out.err = "AttributeError"
    /\ group = gcall.before
    /\ get_as_dictionary(group) = Ok(<<>>)

\* a group that held parameters was cleared
ClearedHeld ==
    /\ gcall.op = "clear" /\ ClearedEmpty
    /\ Len(gcall.before.param_list) > 1

=============================================================================
